---- MODULE Spec2Model ----
(***************************************************************************)
(* Verification model of freepen: the per-key rate limiter (lib/rate-limit) *)
(* and the session / room / message request handlers of the API routes.    *)
(***************************************************************************)
EXTENDS Integers, Sequences, FiniteSets, TLC

(***************************************************************************)
(* Bounds of the model                                                     *)
(***************************************************************************)
\* options.interval of the limiter, scaled down to clock ticks
Interval == 2
\* options.uniqueTokenPerInterval (LRU capacity), scaled down
UniqueTokenPerInterval == 2
\* the limit argument handed to check by the callers of one limiter
Limit == 2
\* the clock stops advancing here
MaxTime == 3
\* number of check calls made on the limiter
MaxCalls == 5
\* the two concurrent bursts: calls per burst and their limit
BurstSize == 4
BurstLimit == 3
\* rooms that can be created, messages that can be stored, sessions that can be created
MaxRooms == 1
MaxMessages == 1
MaxSessions == 2
\* event streams open at a time
MaxStreams == 1

VARIABLES
    now,          \* Date.now()
    tokenCache,   \* the limiter's LRUCache: entries ordered least -> most recently used
    calls,        \* number of check calls made so far
    lastCall,     \* history: the last check call and its outcome
    accepted,     \* history: per key, timestamps of accepted calls inside the trailing interval
    isolated,     \* history: per key, the cache of a limiter that only ever saw this key
    evictedKeys,  \* history: keys whose entry was evicted by the capacity ceiling
    burstPc,      \* per burst, number of check calls already issued
    burstOk,      \* per burst, number of its calls that were accepted
    cookie,       \* per browser, the pong_session cookie it holds
    rooms,        \* the rooms collection: rooms[id] is the document of room id
    messages,     \* the messages collection, in creation order
    streams,      \* open event streams (store listeners) of /messages/{roomId}/stream
    nextUuid,     \* source of crypto.randomUUID(): the next value never issued before
    lastResp,     \* history: the last request handled and its response
    granted,      \* history: per browser, rooms it created or supplied the right password for
    roomPassword, \* history: the password each room was created with
    mwLast,       \* history: the last request the middleware saw and its answer
    roomKeys,     \* client: sessionStorage flag and window.roomKeys entry of the room
    eventSource,  \* client: the EventSource of subscribeToRoomMessages is open
    cliSent,      \* history: the last sendMessage call and the body it posted
    cliEvent,     \* history: the last event given to onmessage and what it delivered
    strPc,        \* stream: how far start(controller) of the ReadableStream has run
    strAborted,   \* stream: request.signal.aborted
    strClosed,    \* stream: the runtime has cancelled the stream, enqueue throws
    strListener,  \* stream: the onSnapshot listener is attached
    strAbortListener, \* stream: the 'abort' listener is registered on request.signal
    strSnapshots, \* stream: snapshots the store has still to deliver to the listener
    strSending,   \* stream: sendMessages calls of the listener waiting for their query
    strDocs,      \* stream: number of messages of the room in the store
    strEnqueued,  \* stream: number of events enqueued on the controller
    strLate,      \* history: an event was enqueued while request.signal.aborted
    logPc,        \* logger: how far the handler that records an event has run
    securityLogs, \* logger: number of documents in the securityLogs collection
    logLast,      \* history: the last logSecurityEvent call and how it ended
    logResponses, \* history: number of responses sent by handlers that recorded an event
    pending,      \* per request in flight: its position, the cookie it carries, its answer
    subArrived,   \* subscription: number of stream events onmessage was started for
    subHandlers,  \* subscription: the onmessage calls waiting at Promise.all
    subCallbacks, \* history: the batches given to the subscriber, in the order given
    pagePc,       \* room page: mounted and still checking, or ready
    pageId,       \* room page: the room the page is opened for
    pageKeys,     \* room page: per room, the sessionStorage flag and the window.roomKeys entry
    showPasswordPrompt, \* room page: the password prompt is shown instead of the chat
    localRooms,   \* room page: the authenticated rooms kept in localStorage
    pageSent      \* history: the last message sent from the room page and its body

limVars == <<now, tokenCache, calls, lastCall, accepted, isolated, evictedKeys, burstPc, burstOk>>

appVars == <<cookie, rooms, messages, streams, nextUuid, lastResp, granted,
             roomPassword>>

mwVars == <<mwLast>>

cliVars == <<roomKeys, eventSource, cliSent, cliEvent>>

strVars == <<strPc, strAborted, strClosed, strListener, strAbortListener,
             strSnapshots, strSending, strDocs, strEnqueued, strLate>>

logVars == <<logPc, securityLogs, logLast, logResponses>>

concVars == <<pending>>

subVars == <<subArrived, subHandlers, subCallbacks>>

pageVars == <<pagePc, pageId, pageKeys, showPasswordPrompt, localRooms, pageSent>>

extVars == <<mwVars, cliVars, strVars, logVars, concVars, subVars, pageVars>>

\* what the steps of one machine leave alone
notMw == <<limVars, appVars, cliVars, strVars, logVars, concVars, subVars, pageVars>>
notCli == <<limVars, appVars, mwVars, strVars, logVars, concVars, subVars, pageVars>>
notStr == <<limVars, appVars, mwVars, cliVars, logVars, concVars, subVars, pageVars>>
notConc == <<limVars, mwVars, cliVars, strVars, logVars, subVars, pageVars>>
notSub == <<limVars, appVars, mwVars, strVars, logVars, concVars, pageVars>>
notPage == <<limVars, appVars, mwVars, cliVars, strVars, logVars, concVars, subVars>>
notLog == <<limVars, appVars, mwVars, cliVars, strVars, concVars, subVars, pageVars>>

vars == <<limVars, appVars, extVars>>

(***************************************************************************)
(* Strings as sequences of characters (X-Forwarded-For parsing)            *)
(***************************************************************************)
Loopback == <<"1","2","7",".","0",".","0",".","1">>

\* String.prototype.trim
RECURSIVE TrimLeft(_)
TrimLeft(s) == IF s # <<>> /\ Head(s) = " " THEN TrimLeft(Tail(s)) ELSE s

RECURSIVE TrimRight(_)
TrimRight(s) == IF s # <<>> /\ s[Len(s)] = " " THEN TrimRight(SubSeq(s, 1, Len(s) - 1)) ELSE s

Trim(s) == TrimRight(TrimLeft(s))

\* s.split(',')[0]
RECURSIVE SplitFirst(_)
SplitFirst(s) ==
    IF s = <<>> \/ Head(s) = "," THEN <<>> ELSE <<Head(s)>> \o SplitFirst(Tail(s))

\* The requests seen by the limiter: only the X-Forwarded-For header matters.
\* present = FALSE models headers.get returning null.
Absent == [present |-> FALSE, chars |-> <<>>]
Hdr(s) == [present |-> TRUE, chars |-> s]
Requests ==
    { Absent, Hdr(<<>>), Hdr(<<" ">>), Hdr(<<" ","a">>), Hdr(<<"a",",","b">>), Hdr(<<"b">>) }

getTokenFirstOnly(request) ==
    IF request.present /\ request.chars # <<>>
    THEN SplitFirst(request.chars)
    ELSE Loopback

getToken(request) ==
    LET forwardedFor == request
    IN  IF forwardedFor.present /\ forwardedFor.chars # <<>> /\ Trim(forwardedFor.chars) # <<>>
        THEN Trim(SplitFirst(forwardedFor.chars))
        ELSE Loopback

Keys == { getToken(r) : r \in Requests }

(***************************************************************************)
(* lru-cache: max = uniqueTokenPerInterval, ttl = interval                 *)
(***************************************************************************)
RECURSIVE SeqFilterOut(_, _)
SeqFilterOut(cache, key) ==
    IF cache = <<>> THEN <<>>
    ELSE IF Head(cache).key = key THEN SeqFilterOut(Tail(cache), key)
    ELSE <<Head(cache)>> \o SeqFilterOut(Tail(cache), key)

HasKey(cache, key) == \E i \in 1..Len(cache) : cache[i].key = key

Entry(cache, key) == cache[CHOOSE i \in 1..Len(cache) : cache[i].key = key]

\* an entry is stale once more than ttl has passed since it was last set
IsStale(e, t) == t - e.start > Interval

\* LRUCache.get: a stale entry is deleted and undefined returned; a live one
\* becomes the most recently used (its ttl is not refreshed).
CacheGet(cache, key, t) ==
    IF ~HasKey(cache, key) THEN [cache |-> cache, value |-> <<>>]
    ELSE LET e == Entry(cache, key)
         IN  IF IsStale(e, t)
             THEN [cache |-> SeqFilterOut(cache, key), value |-> <<>>]
             ELSE [cache |-> Append(SeqFilterOut(cache, key), e), value |-> e.value]

\* LRUCache.set with capacity max: an existing key is updated in place and
\* becomes most recently used; a new key evicts the least recently used entry
\* when the cache is full.  The ttl starts again.
CacheSetMax(cache, key, value, t, max) ==
    LET e == [key |-> key, value |-> value, start |-> t]
    IN  IF HasKey(cache, key) THEN Append(SeqFilterOut(cache, key), e)
        ELSE IF Len(cache) >= max THEN Append(Tail(cache), e)
        ELSE Append(cache, e)

\* the key evicted by a set, if any
EvictedBySet(cache, key, max) ==
    IF ~HasKey(cache, key) /\ Len(cache) >= max THEN {Head(cache).key} ELSE {}

(***************************************************************************)
(* rateLimit(options).check                                                *)
(***************************************************************************)
RECURSIVE FilterValid(_, _)
FilterValid(tokenCount, t) ==
    IF tokenCount = <<>> THEN <<>>
    ELSE IF t - Head(tokenCount) < Interval
         THEN <<Head(tokenCount)>> \o FilterValid(Tail(tokenCount), t)
         ELSE FilterValid(Tail(tokenCount), t)

RECURSIVE FilterValidInclusive(_, _)
FilterValidInclusive(tokenCount, t) ==
    IF tokenCount = <<>> THEN <<>>
    ELSE IF t - Head(tokenCount) <= Interval
         THEN <<Head(tokenCount)>> \o FilterValidInclusive(Tail(tokenCount), t)
         ELSE FilterValidInclusive(Tail(tokenCount), t)

\* tokenCount.filter(timestamp => now - timestamp < options.interval)
validTokensOf(tokenCount, t) == FilterValid(tokenCount, t)

ExceededStrict(validTokens, limit) == Len(validTokens) > limit

\* if (validTokens.length >= limit) throw new Error('Rate limit exceeded')
Exceeded(validTokens, limit) == Len(validTokens) >= limit

\* One call of check on a cache of capacity max: the outcome (ok = FALSE is the
\* thrown 'Rate limit exceeded') and the cache it leaves.
CheckOn(cache, request, limit, t, max) ==
    LET token       == getToken(request)
        got         == CacheGet(cache, token, t)
        validTokens == validTokensOf(got.value, t)
    IN  IF Exceeded(validTokens, limit)
        THEN [ok |-> FALSE, cache |-> got.cache, evicted |-> {}]
        ELSE [ok |-> TRUE,
              cache |-> CacheSetMax(got.cache, token, Append(validTokens, t), t, max),
              evicted |-> EvictedBySet(got.cache, token, max)]

check(cache, request, limit, t) == CheckOn(cache, request, limit, t, UniqueTokenPerInterval)

\* the timestamp list stored for a key (empty when the key has no entry)
Stored(cache, key) == IF HasKey(cache, key) THEN Entry(cache, key).value ELSE <<>>

(***************************************************************************)
(* Session state (lib/session): an iron-session sealed in the cookie       *)
(***************************************************************************)
Browsers == {"b1"}

\* SessionData as getSession initialises it for a caller that is not logged in
AnonymousSession ==
    [isLoggedIn |-> FALSE, userId |-> 0, userName |-> <<>>, authenticatedRooms |-> <<>>,
     csrfToken |-> 0]

\* no pong_session cookie
NoCookie == [present |-> FALSE, data |-> AnonymousSession]

\* getSession: the unsealed cookie; every field is reset when isLoggedIn is not true
getSession(jar) ==
    IF jar.present /\ jar.data.isLoggedIn THEN jar.data ELSE AnonymousSession

\* session.save(): the session is sealed into the cookie store of the request
save(session) == [present |-> TRUE, data |-> session]

\* createSession(userName); uuid and uuid + 1 are the two crypto.randomUUID() values
createSession(jar, userName, uuid) ==
    LET session == getSession(jar)
    IN  save([session EXCEPT !.isLoggedIn = TRUE,
                             !.userId = uuid,
                             !.userName = userName,
                             !.authenticatedRooms = <<>>,
                             !.csrfToken = uuid + 1])

Includes(list, x) == \E i \in 1..Len(list) : list[i] = x

isRoomAuthenticatedNonEmpty(session, roomId) == session.authenticatedRooms # <<>>

isRoomAuthenticatedLoggedIn(session, roomId) == session.isLoggedIn

\* isRoomAuthenticated(session, roomId)
isRoomAuthenticated(session, roomId) == Includes(session.authenticatedRooms, roomId)

addAuthenticatedRoomNoSave(jar, roomId) == jar

addAuthenticatedRoomAlways(jar, roomId) ==
    save([getSession(jar) EXCEPT !.authenticatedRooms = Append(@, roomId)])

addAuthenticatedRoomRotating(jar, roomId) ==
    save([getSession(jar) EXCEPT !.authenticatedRooms = Append(@, roomId),
                                 !.csrfToken = @ + 1])

\* addAuthenticatedRoom(roomId): loads the session again, appends and saves when absent
addAuthenticatedRoom(jar, roomId) ==
    LET session == getSession(jar)
    IN  IF ~Includes(session.authenticatedRooms, roomId)
        THEN save([session EXCEPT !.authenticatedRooms = Append(@, roomId)])
        ELSE jar

verifyCsrfTokenAlways(session, token) == TRUE

\* verifyCsrfToken / session.csrfToken !== csrfToken
verifyCsrfToken(session, token) == session.csrfToken = token

\* user names as character sequences: absent or empty, "a", "a "
UserNames == { <<>>, <<"a">>, <<"a", " ">> }

(***************************************************************************)
(* Password hashing (rooms/create, rooms/join, auth/room)                  *)
(***************************************************************************)
Passwords == {"pw1", "pw2"}
Salts == {"s1"}

\* crypto.pbkdf2(password, salt, 10000, 64, 'sha512') as hex: a distinct value
\* for each (password, salt)
Pbkdf2(password, salt) == <<"pbkdf2", password, salt>>

\* hashPassword: `${salt}:${hex}`, held as its ':'-separated parts
hashPassword(password, salt) == <<salt, Pbkdf2(password, salt)>>

verifyPasswordAlways(password, storedHash) == TRUE

\* verifyPassword of rooms/join: [salt, hash] = storedHash.split(':');
\* hash === derivedKey.toString('hex')  (hash is undefined when there is no ':')
verifyPassword(password, storedHash) ==
    /\ Len(storedHash) >= 2
    /\ storedHash[2] = Pbkdf2(password, storedHash[1])

\* verifyPassword of auth/room: throws 'Invalid hash format' when !salt || !hash
verifyPasswordAuth(password, storedHash) ==
    IF Len(storedHash) < 2 \/ storedHash[1] = "" \/ storedHash[2] = <<>>
    THEN "throw"
    ELSE IF storedHash[2] = Pbkdf2(password, storedHash[1]) THEN "true" ELSE "false"

(***************************************************************************)
(* Message text and its sanitization (messages/send)                       *)
(***************************************************************************)
\* a text is a sequence of pieces: plain words, markup, a script element
Texts == { <<"hi">>, <<"<b>", "hi">> }

IsMarkup(piece) == piece \in {"<b>", "<script>x</script>"}

sanitizeNothing(text) == text

\* DOMPurify.sanitize(text, {ALLOWED_TAGS: [], ALLOWED_ATTR: [], ...}): tags are
\* dropped, script elements are dropped with their content, text is kept
RECURSIVE sanitize(_)
sanitize(text) ==
    IF text = <<>> THEN <<>>
    ELSE IF IsMarkup(Head(text)) THEN sanitize(Tail(text))
    ELSE <<Head(text)>> \o sanitize(Tail(text))

\* DOMPurify.sanitize(userName) with the default configuration: script elements
\* are dropped with their content, harmless tags and text are kept
RECURSIVE sanitizeDefault(_)
sanitizeDefault(text) ==
    IF text = <<>> THEN <<>>
    ELSE IF Head(text) = "<script>x</script>" THEN sanitizeDefault(Tail(text))
    ELSE <<Head(text)>> \o sanitizeDefault(Tail(text))

\* /<script|javascript:|on\w+\s*=|data:text\/html/i.test(text)
containsSuspiciousContent(text) ==
    \E i \in 1..Len(text) : text[i] \in {"<script>x</script>", "javascript:"}

(***************************************************************************)
(* The stores and the request handlers.  A handler is given the cookie of  *)
(* the request (jar) and its input, and yields the response status, the    *)
(* cookie store it leaves and the stores as it leaves them.                *)
(***************************************************************************)
\* the room ids a request can name: those that can exist and one that never does
RoomIds == 1..(MaxRooms + 1)

RoomExists(store, roomId) == roomId \in 1..Len(store)

RECURSIVE MessagesOf(_, _)
\* messages.where('roomId', '==', roomId).orderBy('createdAt', 'asc')
MessagesOf(store, roomId) ==
    IF store = <<>> THEN <<>>
    ELSE IF Head(store).roomId = roomId
         THEN <<Head(store)>> \o MessagesOf(Tail(store), roomId)
         ELSE MessagesOf(Tail(store), roomId)

\* logSecurityEvent(type, request, ...): one more document in securityLogs.  No
\* handler reads that collection, so only the documents a request adds are kept.
logSecurityEvent(logs, type, path) == logs \cup {[type |-> type, path |-> path]}

\* what a handler leaves when it changes nothing
Unchanged(jar, status) ==
    [status |-> status, jar |-> jar, rooms |-> rooms, messages |-> messages,
     logs |-> {}, uuid |-> nextUuid, roomId |-> 0, delayed |-> FALSE,
     queried |-> FALSE, data |-> <<>>, stream |-> FALSE]

\* POST /rooms/create
PostRoomsCreate(jar, in) ==
    IF in.limited
    THEN [Unchanged(jar, 429) EXCEPT
             !.logs = logSecurityEvent({}, "rate_limit_exceeded", "rooms/create")]
    ELSE LET session == getSession(jar)
         IN  IF ~in.wellFormed THEN Unchanged(jar, 400)
             ELSE LET create == ~session.isLoggedIn /\ in.userName # <<>>
                      jar1   == IF create THEN createSession(jar, in.userName, nextUuid)
                                ELSE jar
                      passwordHash == hashPassword(in.password, in.salt)
                      roomId == Len(rooms) + 1
                      \* name, createdAt and createdBy are written and never read
                      doc    == [passwordHash |-> passwordHash]
                  IN  [Unchanged(jar, 201) EXCEPT
                          !.jar = addAuthenticatedRoom(jar1, roomId),
                          !.rooms = Append(rooms, doc),
                          !.uuid = IF create THEN nextUuid + 2 ELSE nextUuid,
                          !.roomId = roomId,
                          !.queried = TRUE]

\* POST /rooms/join
PostRoomsJoin(jar, in) ==
    IF in.limited
    THEN [Unchanged(jar, 429) EXCEPT
             !.delayed = TRUE,
             !.logs = logSecurityEvent({}, "rate_limit_exceeded", "rooms/join")]
    ELSE IF ~in.wellFormed \/ in.userName = <<>> THEN Unchanged(jar, 400)
    ELSE IF ~RoomExists(rooms, in.roomId)
    THEN [Unchanged(jar, 404) EXCEPT !.delayed = TRUE, !.queried = TRUE, !.roomId = in.roomId]
    ELSE IF ~verifyPassword(in.password, rooms[in.roomId].passwordHash)
    THEN [Unchanged(jar, 401) EXCEPT
             !.delayed = TRUE, !.queried = TRUE, !.roomId = in.roomId,
             !.logs = logSecurityEvent({}, "auth_failure", "rooms/join")]
    ELSE LET session == getSession(jar)
             jar1 == IF ~session.isLoggedIn
                     THEN createSession(jar, in.userName, nextUuid)
                     ELSE IF Trim(in.userName) # <<>>
                     THEN save([session EXCEPT !.userName = Trim(in.userName)])
                     ELSE jar
         IN  [Unchanged(jar, 200) EXCEPT
                 !.jar = addAuthenticatedRoom(jar1, in.roomId),
                 !.uuid = IF ~session.isLoggedIn THEN nextUuid + 2 ELSE nextUuid,
                 !.queried = TRUE, !.roomId = in.roomId]

\* POST /auth/room
PostAuthRoom(jar, in) ==
    IF in.limited
    THEN [Unchanged(jar, 429) EXCEPT
             !.delayed = TRUE,
             !.logs = logSecurityEvent({}, "rate_limit_exceeded", "auth/room")]
    ELSE LET session == getSession(jar)
         IN  IF ~session.isLoggedIn THEN Unchanged(jar, 401)
             ELSE IF ~in.wellFormed \/ in.csrfToken = 0 THEN Unchanged(jar, 400)
             ELSE IF ~verifyCsrfToken(session, in.csrfToken)
             THEN [Unchanged(jar, 403) EXCEPT
                      !.roomId = in.roomId,
                      !.logs = logSecurityEvent({}, "csrf_violation", "auth/room")]
             ELSE IF isRoomAuthenticated(session, in.roomId)
             THEN [Unchanged(jar, 200) EXCEPT !.roomId = in.roomId]
             ELSE IF ~RoomExists(rooms, in.roomId)
             THEN [Unchanged(jar, 404) EXCEPT
                      !.delayed = TRUE, !.queried = TRUE, !.roomId = in.roomId,
                      !.logs = logSecurityEvent({}, "suspicious_activity", "auth/room")]
             ELSE LET isPasswordValid ==
                          verifyPasswordAuth(in.password, rooms[in.roomId].passwordHash)
                  IN  IF isPasswordValid = "throw"
                      THEN [Unchanged(jar, 500) EXCEPT !.queried = TRUE, !.roomId = in.roomId]
                      ELSE IF isPasswordValid = "false"
                      THEN [Unchanged(jar, 401) EXCEPT
                               !.delayed = TRUE, !.queried = TRUE, !.roomId = in.roomId,
                               !.logs = logSecurityEvent({}, "auth_failure", "auth/room")]
                      ELSE [Unchanged(jar, 200) EXCEPT
                               !.jar = addAuthenticatedRoom(jar, in.roomId),
                               !.queried = TRUE, !.roomId = in.roomId,
                               !.logs = logSecurityEvent({}, "auth_success", "auth/room")]

\* POST /auth/session
PostAuthSession(jar, in) ==
    IF in.limited THEN Unchanged(jar, 429)
    ELSE IF ~in.wellFormed \/ in.userName = <<>> THEN Unchanged(jar, 400)
    ELSE [Unchanged(jar, 200) EXCEPT
             !.jar = createSession(jar, sanitizeDefault(in.userName), nextUuid),
             !.uuid = nextUuid + 2]

storeAsIsWhenFlagged(encrypted, iv) == encrypted

storeAsIsNever(encrypted, iv) == FALSE

\* if (encrypted && iv): the message is stored as received, with encrypted and iv
storeAsIs(encrypted, iv) == encrypted /\ iv # ""

\* POST /messages/send; in a stored message encrypted = FALSE and iv = "" stand
\* for a document without these fields
PostMessagesSend(jar, in) ==
    IF in.limited
    THEN [Unchanged(jar, 429) EXCEPT
             !.logs = logSecurityEvent({}, "rate_limit_exceeded", "messages/send")]
    ELSE LET session == getSession(jar)
         IN  IF ~in.wellFormed THEN Unchanged(jar, 400)
             ELSE LET create == ~session.isLoggedIn /\ in.userName # <<>>
                      jar1   == IF create THEN createSession(jar, in.userName, nextUuid)
                                ELSE jar
                      uuid1  == IF create THEN nextUuid + 2 ELSE nextUuid
                  IN  IF ~RoomExists(rooms, in.roomId)
                      THEN [Unchanged(jar, 404) EXCEPT
                               !.jar = jar1, !.uuid = uuid1, !.queried = TRUE,
                               !.roomId = in.roomId]
                      ELSE IF ~isRoomAuthenticated(session, in.roomId)
                      THEN [Unchanged(jar, 403) EXCEPT
                               !.jar = jar1, !.uuid = uuid1, !.queried = TRUE,
                               !.roomId = in.roomId,
                               !.logs = logSecurityEvent({}, "suspicious_activity",
                                                         "messages/send")]
                      ELSE LET userName == IF session.userName # <<>> THEN session.userName
                                           ELSE IF in.userName # <<>> THEN in.userName
                                           ELSE <<"Anonymous">>
                               asIs == storeAsIs(in.encrypted, in.iv)
                               sanitizedText == sanitize(in.text)
                               messageData ==
                                   IF asIs
                                   THEN [roomId |-> in.roomId, userName |-> userName,
                                         text |-> in.text, encrypted |-> TRUE, iv |-> in.iv]
                                   ELSE [roomId |-> in.roomId, userName |-> userName,
                                         text |-> sanitizedText, encrypted |-> FALSE, iv |-> ""]
                               logs1 ==
                                   IF ~asIs /\ (containsSuspiciousContent(in.text)
                                                \/ sanitizedText # in.text)
                                   THEN logSecurityEvent({}, "xss_attempt",
                                                         "messages/send")
                                   ELSE {}
                           IN  [Unchanged(jar, 200) EXCEPT
                                   !.jar = jar1, !.uuid = uuid1, !.queried = TRUE,
                                   !.roomId = in.roomId,
                                   !.messages = Append(messages, messageData),
                                   !.logs = logs1]

\* GET /messages/{roomId}
GetMessages(jar, in) ==
    LET session == getSession(jar)
    IN  IF ~isRoomAuthenticated(session, in.roomId)
        THEN [Unchanged(jar, 403) EXCEPT !.roomId = in.roomId]
        ELSE IF ~RoomExists(rooms, in.roomId)
        THEN [Unchanged(jar, 404) EXCEPT !.queried = TRUE, !.roomId = in.roomId]
        ELSE [Unchanged(jar, 200) EXCEPT
                 !.queried = TRUE, !.roomId = in.roomId,
                 !.data = MessagesOf(messages, in.roomId)]

\* GET /messages/{roomId}/stream: the checks, then the stream with its initial
\* event and its store listener
GetMessagesStream(jar, in) ==
    LET session == getSession(jar)
    IN  IF ~isRoomAuthenticated(session, in.roomId)
        THEN [Unchanged(jar, 403) EXCEPT !.roomId = in.roomId]
        ELSE IF ~RoomExists(rooms, in.roomId)
        THEN [Unchanged(jar, 404) EXCEPT !.queried = TRUE, !.roomId = in.roomId]
        ELSE [Unchanged(jar, 200) EXCEPT
                 !.queried = TRUE, !.roomId = in.roomId,
                 !.data = MessagesOf(messages, in.roomId),
                 !.stream = TRUE]

DefaultIn ==
    [limited |-> FALSE, wellFormed |-> TRUE, roomId |-> 1, password |-> "pw1",
     userName |-> <<>>, csrfToken |-> 0, text |-> <<"hi">>, encrypted |-> FALSE,
     iv |-> "", salt |-> "s1"]

NoResp ==
    [op |-> "none", b |-> "b1", status |-> 0, roomId |-> 0, limited |-> FALSE,
     wellFormed |-> TRUE, userName |-> <<>>, passwordRight |-> FALSE,
     roomExisted |-> FALSE, hadRoom |-> FALSE, csrf |-> "missing",
     text |-> <<"hi">>, encrypted |-> FALSE, iv |-> "",
     data |-> <<>>, delayed |-> FALSE, queried |-> FALSE, logged |-> {}]

AppInit ==
    /\ cookie = [b \in Browsers |-> NoCookie]
    /\ rooms = <<>>
    /\ messages = <<>>
    /\ streams = {}
    /\ nextUuid = 1
    /\ lastResp = NoResp
    /\ granted = [b \in Browsers |-> {}]
    /\ roomPassword = <<>>

(***************************************************************************)
(* The middleware (Origin / Referer check on API write requests).  Header  *)
(* values and paths are sequences of pieces; a URL is its scheme, the      *)
(* pieces of its host, and then "/" and the rest.                          *)
(***************************************************************************)
RECURSIVE StartsWith(_, _)
\* String.prototype.startsWith
StartsWith(s, prefix) ==
    IF prefix = <<>> THEN TRUE
    ELSE IF s = <<>> THEN FALSE
    ELSE Head(s) = Head(prefix) /\ StartsWith(Tail(s), Tail(prefix))

RECURSIVE StringIncludes(_, _)
\* String.prototype.includes: the needle occurs somewhere in s; '' always does
StringIncludes(s, needle) ==
    IF StartsWith(s, needle) THEN TRUE
    ELSE IF s = <<>> THEN FALSE
    ELSE StringIncludes(Tail(s), needle)

ApiPrefix == <<"/", "api", "/">>

WriteMethods == {"POST", "PUT", "DELETE", "PATCH"}

\* the requests the middleware is given: Host is "h" or missing; Origin and
\* Referer are missing, empty, of host h, of host e, or of another host whose
\* URL contains "h" (host "h.e", or "h" in the query string)
MwRequests ==
    [method  : {"GET"} \cup WriteMethods,
     path    : {ApiPrefix \o <<"x">>, <<"/", "page">>},
     host    : {Absent, Hdr(<<"h">>)},
     origin  : {Absent, Hdr(<<>>), Hdr(<<"https://", "h">>), Hdr(<<"https://", "e">>),
                Hdr(<<"https://", "h", ".e">>)},
     referer : {Absent, Hdr(<<"https://", "h", "/", "p">>),
                Hdr(<<"https://", "e", "/", "p">>),
                Hdr(<<"https://", "e", "/", "?", "h">>)}]

\* the value of a header as JavaScript sees it: null when missing
Truthy(hdr) == hdr.present /\ hdr.chars # <<>>

\* middleware(request): 403 when the request is rejected, 200 when it goes on
middleware(request) ==
    IF StartsWith(request.path, ApiPrefix) /\ request.method \in WriteMethods
    THEN LET host == IF request.host.present THEN request.host.chars ELSE <<>>
             originMatches  == IF Truthy(request.origin)
                               THEN StringIncludes(request.origin.chars, host)
                               ELSE FALSE
             refererMatches == IF Truthy(request.referer)
                               THEN StringIncludes(request.referer.chars, host)
                               ELSE FALSE
         IN  IF ~Truthy(request.origin) /\ ~Truthy(request.referer)
             THEN [status |-> 403, logged |-> {"csrf_violation"}]
             ELSE IF ~originMatches /\ ~refererMatches
             THEN [status |-> 403, logged |-> {"csrf_violation"}]
             ELSE [status |-> 200, logged |-> {}]
    ELSE [status |-> 200, logged |-> {}]

NoMwRequest ==
    [made |-> FALSE,
     request |-> [method |-> "GET", path |-> <<"/", "page">>, host |-> Absent,
                  origin |-> Absent, referer |-> Absent],
     status |-> 0, logged |-> {}]

MwInit == mwLast = NoMwRequest

(***************************************************************************)
(* The client: encryption of outgoing and decryption of incoming messages. *)
(* A text is a sequence; B64(x) is the base64 string of the bytes x, and    *)
(* Ct(text, key, iv) the AES-GCM ciphertext (with its tag) of text.        *)
(***************************************************************************)
MaxBatch == 2
MaxEvents == 2

CryptoKeys == {"k1", "k2"}
Ivs == {"iv1", "iv2"}
PlainTexts == { <<"hi">>, <<"yo">> }

B64(x) == <<"b64", x>>
Ct(text, key, iv) == <<"ct", text, key, iv>>

\* what a call leaves: a value, or an exception thrown to the caller
Returned(val) == [threw |-> FALSE, val |-> val]
Thrown == [threw |-> TRUE, val |-> <<>>]

Sentinel == <<"[Encrypted message - cannot decrypt]">>

\* base64ToArrayBuffer: window.atob throws on a string that is not base64
base64ToArrayBuffer(base64) ==
    IF Len(base64) = 2 /\ base64[1] = "b64" THEN Returned(base64[2]) ELSE Thrown

\* window.crypto.subtle.decrypt with AES-GCM: rejects unless the buffer is a
\* ciphertext made with this key and this iv
SubtleDecrypt(key, ivBuffer, encryptedBuffer) ==
    IF /\ Len(encryptedBuffer) = 4 /\ encryptedBuffer[1] = "ct"
       /\ encryptedBuffer[3] = key
       /\ encryptedBuffer[4] = ivBuffer
    THEN Returned(encryptedBuffer[2])
    ELSE Thrown

decryptMessageNoCatch(encryptedText, iv, key) ==
    LET encryptedBuffer == base64ToArrayBuffer(encryptedText)
        ivBuffer == base64ToArrayBuffer(iv)
    IN  IF encryptedBuffer.threw \/ ivBuffer.threw THEN Thrown
        ELSE SubtleDecrypt(key, ivBuffer.val, encryptedBuffer.val)

\* decryptMessage: try { ... } catch { return the sentinel }
decryptMessage(encryptedText, iv, key) ==
    LET encryptedBuffer == base64ToArrayBuffer(encryptedText)
        ivBuffer == base64ToArrayBuffer(iv)
        decrypted == IF encryptedBuffer.threw \/ ivBuffer.threw THEN Thrown
                     ELSE SubtleDecrypt(key, ivBuffer.val, encryptedBuffer.val)
    IN  IF decrypted.threw THEN Returned(Sentinel) ELSE decrypted

\* encryptMessage(text, key) with the random iv; rejected is the outcome of
\* window.crypto.subtle.encrypt
encryptMessage(text, key, iv, rejected) ==
    IF rejected THEN Thrown
    ELSE Returned([encryptedText |-> B64(Ct(text, key, iv)), iv |-> B64(iv)])

NoKey == [flag |-> FALSE, key |-> "none"]

\* getRoomKey: null without the sessionStorage flag or without the entry of
\* window.roomKeys
getRoomKey(store) == IF store.flag THEN store.key ELSE "none"

\* the body sendMessage posts; encrypted = FALSE and iv = <<>> stand for a body
\* without these fields
sendMessage(store, roomId, text, userName, iv, rejected) ==
    LET key == getRoomKey(store)
        plain == [roomId |-> roomId, text |-> text, userName |-> userName,
                  encrypted |-> FALSE, iv |-> <<>>]
    IN  IF key # "none"
        THEN LET enc == encryptMessage(text, key, iv, rejected)
             IN  IF enc.threw THEN plain
                 ELSE [roomId |-> roomId, text |-> enc.val.encryptedText,
                       userName |-> userName, encrypted |-> TRUE, iv |-> enc.val.iv]
        ELSE plain

\* the messages an event of the stream can carry
ServerMessages ==
    { [text |-> <<"hi">>, encrypted |-> FALSE, iv |-> <<>>],
      [text |-> B64(Ct(<<"hi">>, "k1", "iv1")), encrypted |-> TRUE, iv |-> B64("iv1")],
      [text |-> B64(Ct(<<"hi">>, "k2", "iv1")), encrypted |-> TRUE, iv |-> B64("iv1")],
      [text |-> B64(Ct(<<"hi">>, "k1", "iv1")), encrypted |-> TRUE, iv |-> B64("iv2")],
      [text |-> B64(<<"ct", <<"hi">>, "k1", "iv1", "tampered">>), encrypted |-> TRUE,
       iv |-> B64("iv1")],
      [text |-> <<"!!">>, encrypted |-> TRUE, iv |-> B64("iv1")],
      [text |-> B64(Ct(<<"hi">>, "k1", "iv1")), encrypted |-> TRUE, iv |-> <<>>] }

Batches == UNION { [1..n -> ServerMessages] : n \in 0..MaxBatch }

\* event.data: text that is not JSON, an error object, or a list of messages
ServerEvents ==
    { [kind |-> "garbage", messages |-> <<>>], [kind |-> "error", messages |-> <<>>] }
    \cup { [kind |-> "messages", messages |-> batch] : batch \in Batches }

\* the body of data.messages.map(async (msg) => ...) for one message
TransformMessage(msg, key) ==
    IF msg.encrypted /\ msg.iv # <<>> /\ key # "none"
    THEN LET decryptedText == decryptMessage(msg.text, msg.iv, key)
         IN  IF decryptedText.threw
             THEN Returned([msg EXCEPT !.text = Sentinel])
             ELSE Returned([msg EXCEPT !.text = decryptedText.val])
    ELSE Returned(msg)

\* eventSource.onmessage: what is given to the callback, if it is called, and
\* whether an exception leaves the handler
onmessage(event, key) ==
    IF event.kind = "garbage" THEN [threw |-> FALSE, called |-> FALSE, delivered |-> <<>>]
    ELSE IF event.kind = "error" THEN [threw |-> FALSE, called |-> FALSE, delivered |-> <<>>]
    ELSE LET results == [i \in 1..Len(event.messages) |->
                            TransformMessage(event.messages[i], key)]
         IN  IF \E i \in 1..Len(results) : results[i].threw
             THEN [threw |-> FALSE, called |-> FALSE, delivered |-> <<>>]
             ELSE [threw |-> FALSE, called |-> TRUE,
                   delivered |-> [i \in 1..Len(results) |-> results[i].val]]

NoSent ==
    [made |-> FALSE, key |-> "none", text |-> <<>>,
     body |-> [roomId |-> 0, text |-> <<>>, userName |-> <<>>, encrypted |-> FALSE,
               iv |-> <<>>]]

NoEvent ==
    [n |-> 0, key |-> "none", event |-> [kind |-> "garbage", messages |-> <<>>],
     threw |-> FALSE, called |-> FALSE, delivered |-> <<>>, failedBefore |-> FALSE]

CliInit ==
    /\ roomKeys = NoKey
    /\ eventSource = FALSE
    /\ cliSent = NoSent
    /\ cliEvent = NoEvent

(***************************************************************************)
(* The event stream of GET /messages/{roomId}/stream: start(controller) of  *)
(* the ReadableStream, the store listener and the abort of the request.    *)
(***************************************************************************)
\* messages of the room written to the store while the stream is open
MaxDocs == 2
\* snapshots waiting to be delivered to the listener
MaxSnapshots == 2
\* sendMessages calls of the listener in progress at a time
MaxSending == 2
\* events enqueued on one stream
MaxEnqueued == 3

StrInit ==
    /\ strPc = "idle"
    /\ strAborted = FALSE
    /\ strClosed = FALSE
    /\ strListener = FALSE
    /\ strAbortListener = FALSE
    /\ strSnapshots = 0
    /\ strSending = 0
    /\ strDocs = 0
    /\ strEnqueued = 0
    /\ strLate = FALSE

(***************************************************************************)
(* Recording a security event: logSecurityEvent and the handlers that call *)
(* it.  Every call site is `await logSecurityEvent(...)` followed by the    *)
(* return of the response.                                                 *)
(***************************************************************************)
\* documents in securityLogs
MaxLogs == 2
\* responses counted
MaxResponses == 3

\* the places that record an event and the status they answer with; edge:
\* the middleware uses lib/edge-security-logger, which writes to the console
\* only.  "direct" is a call of logSecurityEvent outside any handler.
LogSites ==
    { [handler |-> "rooms/create", type |-> "rate_limit_exceeded", status |-> 429, edge |-> FALSE],
      [handler |-> "rooms/join", type |-> "rate_limit_exceeded", status |-> 429, edge |-> FALSE],
      [handler |-> "rooms/join", type |-> "auth_failure", status |-> 401, edge |-> FALSE],
      [handler |-> "auth/room", type |-> "rate_limit_exceeded", status |-> 429, edge |-> FALSE],
      [handler |-> "auth/room", type |-> "csrf_violation", status |-> 403, edge |-> FALSE],
      [handler |-> "auth/room", type |-> "auth_failure", status |-> 401, edge |-> FALSE],
      [handler |-> "messages/send", type |-> "rate_limit_exceeded", status |-> 429, edge |-> FALSE],
      [handler |-> "messages/send", type |-> "suspicious_activity", status |-> 403, edge |-> FALSE],
      [handler |-> "messages/send", type |-> "xss_attempt", status |-> 200, edge |-> FALSE],
      [handler |-> "middleware", type |-> "csrf_violation", status |-> 403, edge |-> TRUE],
      [handler |-> "direct", type |-> "auth_failure", status |-> 0, edge |-> FALSE] }

\* how a call of logSecurityEvent stands: pending (waiting for the store) or
\* settled with result, and whether it wrote a document
LogPending == [settled |-> FALSE, result |-> FALSE, wrote |-> FALSE, threw |-> FALSE]
LogResolved(result, wrote) ==
    [settled |-> TRUE, result |-> result, wrote |-> wrote, threw |-> FALSE]
LogThrown == [settled |-> TRUE, result |-> FALSE, wrote |-> FALSE, threw |-> TRUE]

logCatchRethrow == LogThrown

\* catch (error) { console.error(...); return false }
logCatch == LogResolved(FALSE, FALSE)

\* logSecurityEvent up to its await: new URL(request.url) throws on a request
\* that is no Request object (requestOk FALSE); the edge logger then returns
\* true, the store logger calls securityLogs.add(event) and waits
logSecurityEventStart(requestOk, edge) ==
    IF ~requestOk THEN logCatch
    ELSE IF edge THEN LogResolved(TRUE, FALSE)
    ELSE LogPending

\* logSecurityEvent after its await: add resolved (added) or rejected
logSecurityEventSettle(added) ==
    IF added THEN LogResolved(TRUE, TRUE) ELSE logCatch

NoLog == [site |-> [handler |-> "direct", type |-> "auth_failure", status |-> 0,
                    edge |-> FALSE],
          requestOk |-> TRUE, call |-> LogPending, status |-> 0, logsBefore |-> 0]

LogInit ==
    /\ logPc = "idle"
    /\ securityLogs = 0
    /\ logLast = NoLog
    /\ logResponses = 0

(***************************************************************************)
(* Requests of one browser that overlap in time.  The session lives in the  *)
(* cookie: a request carries the cookie the browser held when it was sent,  *)
(* the handler works on that copy, and the Set-Cookie of the response       *)
(* replaces the browser's cookie when the response arrives.                *)
(***************************************************************************)
Reqs == {"r1", "r2"}

NoRequest ==
    [pc |-> "idle", jar |-> NoCookie, in |-> DefaultIn, status |-> 0, out |-> NoCookie,
     saved |-> FALSE, overlap |-> FALSE]

\* rooms/join calls session.save(), directly or in createSession or
\* addAuthenticatedRoom, on its success path: the response then carries Set-Cookie
JoinSaves(jar, in, status) ==
    /\ status = 200
    /\ LET session == getSession(jar)
       IN  \/ ~session.isLoggedIn
           \/ Trim(in.userName) # <<>>
           \/ ~Includes(session.authenticatedRooms, in.roomId)

ConcInitPending == pending = [r \in Reqs |-> NoRequest]

(***************************************************************************)
(* subscribeToRoomMessages with decryption that takes time.  onmessage is   *)
(* an async function: it is started for every event as the event arrives,   *)
(* waits at Promise.all for the decryptMessage calls of its messages, and   *)
(* calls the subscriber when all of them have settled.                     *)
(***************************************************************************)
\* stream events received
MaxArrived == 3

\* the messages of the events: in the clear, or encrypted with the key k1
SubMessages ==
    { [text |-> <<"hi">>, encrypted |-> FALSE, iv |-> <<>>],
      [text |-> B64(Ct(<<"hi">>, "k1", "iv1")), encrypted |-> TRUE, iv |-> B64("iv1")] }

SubBatches == UNION { [1..n -> SubMessages] : n \in 1..MaxBatch }

\* if (msg.encrypted && msg.iv && key): the message waits for decryptMessage
NeedsDecrypt(msg, key) == msg.encrypted /\ msg.iv # <<>> /\ key # "none"

\* Promise.all: the results in the order of data.messages
PromiseAll(msgs, key) ==
    [i \in 1..Len(msgs) |-> TransformMessage(msgs[i], key).val]

SubInit ==
    /\ subArrived = 0
    /\ subHandlers = {}
    /\ subCallbacks = <<>>

(***************************************************************************)
(* The room page (RoomPage with UserProvider) for one room: the password    *)
(* prompt, the list of authenticated rooms in localStorage, and the room    *)
(* key (flag in sessionStorage, CryptoKey in window.roomKeys).             *)
(***************************************************************************)
\* the rooms a page can be opened for
PageRooms == {1, 2}

\* UserProvider isRoomAuthenticated, once the list of localStorage is loaded
PageIsRoomAuthenticated(stored, roomId) == roomId \in stored

PageInit ==
    /\ pagePc = "checking"
    /\ pageId = 1
    /\ pageKeys = [roomId \in PageRooms |-> NoKey]
    /\ showPasswordPrompt = FALSE
    /\ localRooms = {}
    /\ pageSent = NoSent

ExtInit ==
    MwInit /\ CliInit /\ StrInit /\ LogInit /\ ConcInitPending /\ SubInit /\ PageInit

(***************************************************************************)
(* The limiter as a state machine                                          *)
(***************************************************************************)
NoCall == [made |-> FALSE, key |-> <<>>, request |-> Absent, at |-> 0, ok |-> FALSE,
           before |-> <<>>, after |-> <<>>, isolatedOk |-> FALSE]

LimInit ==
    /\ now = 0
    /\ tokenCache = <<>>
    /\ calls = 0
    /\ lastCall = NoCall
    /\ accepted = [k \in Keys |-> <<>>]
    /\ isolated = [k \in Keys |-> <<>>]
    /\ evictedKeys = {}
    /\ burstPc = [p \in {1, 2} |-> 0]
    /\ burstOk = [p \in {1, 2} |-> 0]

\* limiter.check(request, Limit) for any request
Call(request) ==
    /\ calls < MaxCalls
    /\ LET key == getToken(request)
           res == check(tokenCache, request, Limit, now)
           iso == CheckOn(isolated[key], request, Limit, now, 1)
       IN  /\ tokenCache' = res.cache
           /\ calls' = calls + 1
           /\ lastCall' = [made |-> TRUE, key |-> key, request |-> request, at |-> now,
                           ok |-> res.ok,
                           before |-> Stored(tokenCache, key),
                           after |-> Stored(res.cache, key),
                           isolatedOk |-> iso.ok]
           /\ accepted' = [accepted EXCEPT ![key] =
                              IF res.ok THEN Append(@, now) ELSE @]
           /\ isolated' = [isolated EXCEPT ![key] = iso.cache]
           /\ evictedKeys' = evictedKeys \cup res.evicted
    /\ UNCHANGED <<now, burstPc, burstOk>>
    /\ UNCHANGED <<appVars, extVars>>

\* the clock advances; accepted timestamps that left the trailing interval are dropped
Tick ==
    /\ now < MaxTime
    /\ now' = now + 1
    /\ accepted' = [k \in Keys |-> FilterValid(accepted[k], now + 1)]
    /\ UNCHANGED <<tokenCache, calls, lastCall, isolated, evictedKeys, burstPc, burstOk>>
    /\ UNCHANGED <<appVars, extVars>>

Init == LimInit /\ AppInit /\ ExtInit

Next ==
    \/ \E request \in Requests : Call(request)
    \/ Tick

Spec == Init /\ [][Next]_vars

(***************************************************************************)
(* Two concurrent bursts on one key.  check is an async arrow function     *)
(* without any await in its body, so each call runs to completion once it  *)
(* has started: the interleaving of the two bursts is an interleaving of   *)
(* whole calls.                                                            *)
(***************************************************************************)
BurstRequest == Hdr(<<"b">>)

BurstCheck(p) ==
    /\ burstPc[p] < BurstSize
    /\ LET res == check(tokenCache, BurstRequest, BurstLimit, now)
       IN  /\ tokenCache' = res.cache
           /\ burstOk' = [burstOk EXCEPT ![p] = IF res.ok THEN @ + 1 ELSE @]
    /\ burstPc' = [burstPc EXCEPT ![p] = @ + 1]
    /\ UNCHANGED <<now, calls, lastCall, accepted, isolated, evictedKeys>>
    /\ UNCHANGED <<appVars, extVars>>

\* time passes, but all calls stay inside one interval
BurstTick ==
    /\ now < Interval - 1
    /\ now' = now + 1
    /\ UNCHANGED <<tokenCache, calls, lastCall, accepted, isolated, evictedKeys, burstPc, burstOk>>
    /\ UNCHANGED <<appVars, extVars>>

BurstNext ==
    \/ \E p \in {1, 2} : BurstCheck(p)
    \/ BurstTick

BurstSpec == Init /\ [][BurstNext]_vars

(***************************************************************************)
(* The API as a state machine: a browser sends a request with the cookie   *)
(* it holds, the handler runs, and the browser keeps the cookie of the     *)
(* response.  Each step records in lastResp what the caller sent and what   *)
(* it received.                                                            *)
(***************************************************************************)
\* the password of the request is the one the room was created with (judged
\* from the creation request, not from the handler's own check)
PasswordRight(in) ==
    in.roomId \in 1..Len(roomPassword) /\ in.password = roomPassword[in.roomId]

\* the rooms a request of this kind grants
GrantOf(op, in, res) ==
    IF op = "create" /\ res.status = 201 THEN {res.roomId}
    ELSE IF op \in {"join", "auth"} /\ res.status = 200 /\ PasswordRight(in)
         THEN {in.roomId}
         ELSE {}

\* a request the limiter rejects, and one whose body fails validation: the
\* handlers read nothing else of them
Limited == [DefaultIn EXCEPT !.limited = TRUE]
Malformed == [DefaultIn EXCEPT !.wellFormed = FALSE]

\* the response res of handler op to browser b's request in
Respond(b, op, in, res) ==
    /\ Len(res.rooms) <= MaxRooms
    /\ Len(res.messages) <= MaxMessages
    /\ res.uuid <= 2 * MaxSessions + 1
    /\ res.stream => Cardinality(streams) < MaxStreams
    /\ cookie' = [cookie EXCEPT ![b] = res.jar]
    /\ rooms' = res.rooms
    /\ messages' = res.messages
    /\ nextUuid' = res.uuid
    /\ streams' = IF res.stream
                  THEN streams \cup {[b |-> b, roomId |-> res.roomId]}
                  ELSE streams
    /\ lastResp' = [op |-> op, b |-> b, status |-> res.status,
                    roomId |-> IF op = "create" THEN res.roomId ELSE in.roomId,
                    limited |-> in.limited, wellFormed |-> in.wellFormed,
                    userName |-> in.userName,
                    passwordRight |-> op # "create" /\ PasswordRight(in),
                    roomExisted |-> op # "create" /\ RoomExists(rooms, in.roomId),
                    hadRoom |-> /\ op # "create"
                                /\ Includes(getSession(cookie[b]).authenticatedRooms,
                                            in.roomId),
                    csrf |-> IF in.csrfToken = 0 THEN "missing"
                             ELSE IF in.csrfToken = getSession(cookie[b]).csrfToken
                                  THEN "right" ELSE "wrong",
                    text |-> in.text, encrypted |-> in.encrypted, iv |-> in.iv,
                    data |-> res.data, delayed |-> res.delayed, queried |-> res.queried,
                    logged |-> res.logs]
    /\ granted' = [granted EXCEPT ![b] =
                      (IF res.uuid # nextUuid THEN {} ELSE @) \cup GrantOf(op, in, res)]
    /\ roomPassword' = IF op = "create" /\ res.status = 201
                       THEN Append(roomPassword, in.password)
                       ELSE roomPassword
    /\ UNCHANGED <<limVars, extVars>>

RoomsCreate(b) ==
    \E in \in {Limited, Malformed}
              \cup { [DefaultIn EXCEPT !.password = password, !.userName = userName,
                                       !.salt = salt] :
                       password \in Passwords, userName \in UserNames, salt \in Salts } :
        Respond(b, "create", in, PostRoomsCreate(cookie[b], in))

RoomsJoin(b) ==
    \E in \in {Limited, Malformed}
              \cup { [DefaultIn EXCEPT !.roomId = roomId, !.password = password,
                                       !.userName = userName] :
                       roomId \in RoomIds, password \in Passwords, userName \in UserNames } :
        Respond(b, "join", in, PostRoomsJoin(cookie[b], in))

\* the csrfToken of the body: missing, the session's own, or another one
AuthRoom(b) ==
    \E in \in {Limited, Malformed}
              \cup { [DefaultIn EXCEPT !.roomId = roomId, !.password = password,
                                       !.csrfToken = csrfToken] :
                       roomId \in RoomIds, password \in Passwords,
                       csrfToken \in {0, getSession(cookie[b]).csrfToken, 1} } :
        Respond(b, "auth", in, PostAuthRoom(cookie[b], in))

AuthSession(b) ==
    \E in \in {Limited, Malformed}
              \cup { [DefaultIn EXCEPT !.userName = userName] : userName \in UserNames } :
        Respond(b, "session", in, PostAuthSession(cookie[b], in))

MessagesSend(b) ==
    \E in \in {Limited, Malformed}
              \cup { [DefaultIn EXCEPT !.roomId = roomId, !.text = text,
                                       !.userName = userName, !.encrypted = encrypted,
                                       !.iv = iv] :
                       roomId \in RoomIds, text \in Texts, userName \in UserNames,
                       encrypted \in BOOLEAN, iv \in {"", "iv"} } :
        Respond(b, "send", in, PostMessagesSend(cookie[b], in))

MessagesGet(b) ==
    \E roomId \in RoomIds :
        LET in == [DefaultIn EXCEPT !.roomId = roomId]
        IN  Respond(b, "get", in, GetMessages(cookie[b], in))

MessagesStream(b) ==
    \E roomId \in RoomIds :
        LET in == [DefaultIn EXCEPT !.roomId = roomId]
        IN  Respond(b, "stream", in, GetMessagesStream(cookie[b], in))

\* the store listener of an open stream fires: onSnapshot callback, sendMessages
StreamEvent(s) ==
    /\ s \in streams
    /\ MessagesOf(messages, s.roomId) # <<>>
    /\ lastResp' = [NoResp EXCEPT !.op = "event", !.b = s.b, !.status = 200,
                                  !.roomId = s.roomId,
                                  !.data = MessagesOf(messages, s.roomId),
                                  !.queried = TRUE, !.roomExisted = TRUE]
    /\ UNCHANGED <<cookie, rooms, messages, streams, nextUuid, granted, roomPassword>>
    /\ UNCHANGED <<limVars, extVars>>

\* the client aborts the connection of a stream: the abort listener unsubscribes
StreamAbort(s) ==
    /\ s \in streams
    /\ streams' = streams \ {s}
    /\ lastResp' = [NoResp EXCEPT !.op = "abort", !.b = s.b, !.roomId = s.roomId]
    /\ UNCHANGED <<cookie, rooms, messages, nextUuid, granted, roomPassword>>
    /\ UNCHANGED <<limVars, extVars>>

\* the cookie reaches its maxAge (24 hours) or is cleared by the user
CookieExpires(b) ==
    /\ cookie[b].present
    /\ cookie' = [cookie EXCEPT ![b] = NoCookie]
    /\ granted' = [granted EXCEPT ![b] = {}]
    /\ lastResp' = [NoResp EXCEPT !.op = "expire", !.b = b]
    /\ UNCHANGED <<rooms, messages, streams, nextUuid, roomPassword>>
    /\ UNCHANGED <<limVars, extVars>>

AppNext ==
    \/ \E b \in Browsers : RoomsCreate(b)
    \/ \E b \in Browsers : RoomsJoin(b)
    \/ \E b \in Browsers : AuthRoom(b)
    \/ \E b \in Browsers : AuthSession(b)
    \/ \E b \in Browsers : MessagesSend(b)
    \/ \E b \in Browsers : MessagesGet(b)
    \/ \E b \in Browsers : MessagesStream(b)
    \/ \E s \in streams : StreamEvent(s)
    \/ \E s \in streams : StreamAbort(s)
    \/ \E b \in Browsers : CookieExpires(b)

AppSpec == Init /\ [][AppNext]_vars


(***************************************************************************)
(* Rooms whose stored passwordHash was not written by rooms/create.  The    *)
(* stored string is held as its ':'-separated parts, as split(':') yields   *)
(* them: one part when there is no ':', an empty first or second part when  *)
(* the salt or the hash is empty.                                          *)
(***************************************************************************)
StoredHashes ==
    { hashPassword("pw1", "s1"),
      <<"x">>,
      <<"s1", <<>>>>,
      <<"", <<"h">>>>,
      <<"", Pbkdf2("pw1", "")>> }

\* the store holds one room with such a hash
HashInit ==
    /\ LimInit
    /\ ExtInit
    /\ cookie = [b \in Browsers |-> NoCookie]
    /\ \E storedHash \in StoredHashes : rooms = << [passwordHash |-> storedHash] >>
    /\ messages = <<>>
    /\ streams = {}
    /\ nextUuid = 1
    /\ lastResp = NoResp
    /\ granted = [b \in Browsers |-> {}]
    /\ roomPassword = <<"pw1">>

HashNext ==
    \/ \E b \in Browsers : AuthSession(b)
    \/ \E b \in Browsers : RoomsJoin(b)
    \/ \E b \in Browsers : AuthRoom(b)

HashSpec == HashInit /\ [][HashNext]_vars


(***************************************************************************)
(* Overlapping joins as a state machine: an identified session, two rooms,  *)
(* and two POST /rooms/join requests of the same browser, each sent,        *)
(* handled and answered in steps of its own.                                *)
(***************************************************************************)
ConcInit ==
    /\ LimInit
    /\ ExtInit
    /\ cookie = [b \in Browsers |->
                    save([AnonymousSession EXCEPT !.isLoggedIn = TRUE, !.userId = 1,
                                                  !.userName = <<"a">>,
                                                  !.csrfToken = 2])]
    /\ rooms = << [passwordHash |-> hashPassword("pw1", "s1")],
                  [passwordHash |-> hashPassword("pw2", "s1")] >>
    /\ messages = <<>>
    /\ streams = {}
    /\ nextUuid = 3
    /\ lastResp = NoResp
    /\ granted = [b \in Browsers |-> {}]
    /\ roomPassword = <<"pw1", "pw2">>

\* the browser sends request r with the cookie it holds now
ConcSend(b, r) ==
    /\ pending[r].pc = "idle"
    /\ \E roomId \in 1..2, password \in Passwords, userName \in UserNames \ {<<>>} :
          pending' = [pending EXCEPT ![r] =
                         [NoRequest EXCEPT
                             !.pc = "sent", !.jar = cookie[b],
                             !.in = [DefaultIn EXCEPT !.roomId = roomId,
                                                      !.password = password,
                                                      !.userName = userName],
                             !.overlap = \E q \in Reqs \ {r} :
                                             pending[q].pc \in {"sent", "answered"}]]
    /\ UNCHANGED <<cookie, rooms, messages, streams, nextUuid, lastResp, granted,
                   roomPassword>>
    /\ UNCHANGED notConc

\* the handler of rooms/join runs on the cookie of request r
ConcHandle(r) ==
    /\ pending[r].pc = "sent"
    /\ LET res == PostRoomsJoin(pending[r].jar, pending[r].in)
       IN  /\ res.uuid <= 2 * MaxSessions + 1
           /\ nextUuid' = res.uuid
           /\ pending' = [pending EXCEPT ![r] =
                             [@ EXCEPT !.pc = "answered", !.status = res.status,
                                       !.out = res.jar,
                                       !.saved = JoinSaves(pending[r].jar, pending[r].in,
                                                           res.status)]]
    /\ UNCHANGED <<cookie, rooms, messages, streams, lastResp, granted, roomPassword>>
    /\ UNCHANGED notConc

\* the response of request r arrives: its Set-Cookie, if any, replaces the cookie
ConcApply(b, r) ==
    /\ pending[r].pc = "answered"
    /\ cookie' = IF pending[r].saved THEN [cookie EXCEPT ![b] = pending[r].out] ELSE cookie
    /\ pending' = [pending EXCEPT ![r] = [@ EXCEPT !.pc = "done"]]
    /\ UNCHANGED <<rooms, messages, streams, nextUuid, lastResp, granted, roomPassword>>
    /\ UNCHANGED notConc

ConcNext ==
    \/ \E b \in Browsers, r \in Reqs : ConcSend(b, r)
    \/ \E r \in Reqs : ConcHandle(r)
    \/ \E b \in Browsers, r \in Reqs : ConcApply(b, r)

ConcSpec == ConcInit /\ [][ConcNext]_vars

(***************************************************************************)
(* The middleware as a state machine: one request at a time                *)
(***************************************************************************)
Middleware(request) ==
    /\ LET res == middleware(request)
       IN  mwLast' = [made |-> TRUE, request |-> request, status |-> res.status,
                      logged |-> res.logged]
    /\ UNCHANGED notMw

MwNext == \E request \in MwRequests : Middleware(request)

MwSpec == Init /\ [][MwNext]_vars

(***************************************************************************)
(* The client as a state machine                                           *)
(***************************************************************************)
\* storeRoomKey(roomId, key)
ClientStoreKey(key) ==
    /\ roomKeys' = [flag |-> TRUE, key |-> key]
    /\ UNCHANGED <<eventSource, cliSent, cliEvent>>
    /\ UNCHANGED notCli

\* the page is loaded again: window.roomKeys is gone, sessionStorage is kept, the
\* EventSource is closed
ClientReload ==
    /\ roomKeys.key # "none"
    /\ roomKeys' = [roomKeys EXCEPT !.key = "none"]
    /\ eventSource' = FALSE
    /\ UNCHANGED <<cliSent, cliEvent>>
    /\ UNCHANGED notCli

\* subscribeToRoomMessages(roomId, callback)
ClientSubscribe ==
    /\ ~eventSource
    /\ eventSource' = TRUE
    /\ UNCHANGED <<roomKeys, cliSent, cliEvent>>
    /\ UNCHANGED notCli

\* the unsubscribe handle: eventSource.close()
ClientUnsubscribe ==
    /\ eventSource
    /\ eventSource' = FALSE
    /\ UNCHANGED <<roomKeys, cliSent, cliEvent>>
    /\ UNCHANGED notCli

\* sendMessage(roomId, text, userName), up to the fetch of /api/messages/send
ClientSendMessage(text, iv, rejected) ==
    /\ cliSent' = [made |-> TRUE, key |-> getRoomKey(roomKeys), text |-> text,
                   body |-> sendMessage(roomKeys, 1, text, <<"a">>, iv, rejected)]
    /\ UNCHANGED <<roomKeys, eventSource, cliEvent>>
    /\ UNCHANGED notCli

\* an event of the stream reaches eventSource.onmessage
ClientOnMessage(event) ==
    /\ eventSource
    /\ cliEvent.n < MaxEvents
    /\ LET key == getRoomKey(roomKeys)
           res == onmessage(event, key)
       IN  cliEvent' = [n |-> cliEvent.n + 1, key |-> key, event |-> event,
                        threw |-> res.threw, called |-> res.called,
                        delivered |-> res.delivered,
                        failedBefore |->
                            \/ cliEvent.failedBefore
                            \/ \E i \in 1..Len(cliEvent.delivered) :
                                  cliEvent.delivered[i].text = Sentinel]
    /\ UNCHANGED <<roomKeys, eventSource, cliSent>>
    /\ UNCHANGED notCli

CliNext ==
    \/ \E key \in CryptoKeys : ClientStoreKey(key)
    \/ ClientReload
    \/ ClientSubscribe
    \/ ClientUnsubscribe
    \/ \E text \in PlainTexts, iv \in Ivs, rejected \in BOOLEAN :
          ClientSendMessage(text, iv, rejected)
    \/ \E event \in ServerEvents : ClientOnMessage(event)

CliSpec == Init /\ [][CliNext]_vars


(***************************************************************************)
(* The event stream as a state machine.  start(controller) is an async     *)
(* function: it runs up to its first await (the query of sendMessages),    *)
(* and once that query has settled it runs to its end without another      *)
(* await on anything outside, so its remainder is one step.  The abort of   *)
(* the request, the store and the runtime take their steps in between.     *)
(***************************************************************************)
\* controller.enqueue(event) on a stream that is not closed
Enqueue ==
    /\ strEnqueued < MaxEnqueued
    /\ strEnqueued' = strEnqueued + 1
    /\ strLate' = (strLate \/ strAborted)

\* the handler has answered 200: new ReadableStream({start}) runs start up to
\* the await of the query in sendMessages
StreamStart ==
    /\ strPc = "idle"
    /\ strPc' = "fetching"
    /\ UNCHANGED <<strAborted, strClosed, strListener, strAbortListener, strSnapshots,
                   strSending, strDocs, strEnqueued, strLate>>
    /\ UNCHANGED notStr

\* the query of the initial sendMessages settles (ok: it resolved).  Either
\* way sendMessages calls controller.enqueue, with the messages or with the
\* error event.  On a closed stream enqueue throws, out of the try and then
\* out of the catch, and start ends there with the exception.  Otherwise
\* start goes on to attach the onSnapshot listener and, last, to register
\* the 'abort' listener on request.signal.
StreamInitialSend(ok) ==
    /\ strPc = "fetching"
    /\ IF strClosed
       THEN /\ strPc' = "failed"
            /\ UNCHANGED <<strListener, strAbortListener, strSnapshots, strEnqueued,
                           strLate>>
       ELSE /\ Enqueue
            /\ strListener' = TRUE
            /\ strSnapshots' = 1
            /\ strAbortListener' = TRUE
            /\ strPc' = "listening"
    /\ UNCHANGED <<strAborted, strClosed, strSending, strDocs>>
    /\ UNCHANGED notStr

\* a message of the room is written to the store; an attached listener is
\* owed a snapshot
StreamStoreWrite ==
    /\ strDocs < MaxDocs
    /\ strListener => strSnapshots < MaxSnapshots
    /\ strDocs' = strDocs + 1
    /\ strSnapshots' = IF strListener THEN strSnapshots + 1 ELSE strSnapshots
    /\ UNCHANGED <<strPc, strAborted, strClosed, strListener, strAbortListener,
                   strSending, strEnqueued, strLate>>
    /\ UNCHANGED notStr

\* the store delivers a snapshot to the listener:
\* if (!snapshot.empty) await sendMessages()
StreamOnSnapshot ==
    /\ strListener
    /\ strSnapshots > 0
    /\ strDocs > 0 => strSending < MaxSending
    /\ strSnapshots' = strSnapshots - 1
    /\ strSending' = IF strDocs > 0 THEN strSending + 1 ELSE strSending
    /\ UNCHANGED <<strPc, strAborted, strClosed, strListener, strAbortListener,
                   strDocs, strEnqueued, strLate>>
    /\ UNCHANGED notStr

\* the query of a sendMessages call of the listener settles; on a closed
\* stream enqueue throws and the call's promise is rejected
StreamSendMessages(ok) ==
    /\ strSending > 0
    /\ strSending' = strSending - 1
    /\ IF strClosed
       THEN UNCHANGED <<strEnqueued, strLate>>
       ELSE Enqueue
    /\ UNCHANGED <<strPc, strAborted, strClosed, strListener, strAbortListener,
                   strSnapshots, strDocs>>
    /\ UNCHANGED notStr

\* the store reports a listen error: the error callback enqueues the error
\* event, and the store delivers nothing more to a listener that failed
StreamListenError ==
    /\ strListener
    /\ IF strClosed
       THEN UNCHANGED <<strEnqueued, strLate>>
       ELSE Enqueue
    /\ strListener' = FALSE
    /\ strSnapshots' = 0
    /\ UNCHANGED <<strPc, strAborted, strClosed, strAbortListener, strSending, strDocs>>
    /\ UNCHANGED notStr

\* the client aborts the connection: request.signal fires 'abort' to the
\* listeners registered at that moment; the one start registers calls
\* unsubscribe()
StreamSignalAbort ==
    /\ strPc \in {"fetching", "listening"}
    /\ ~strAborted
    /\ strAborted' = TRUE
    /\ IF strAbortListener
       THEN /\ strListener' = FALSE
            /\ strSnapshots' = 0
       ELSE UNCHANGED <<strListener, strSnapshots>>
    /\ UNCHANGED <<strPc, strClosed, strAbortListener, strSending, strDocs,
                   strEnqueued, strLate>>
    /\ UNCHANGED notStr

\* the runtime cancels the body stream of the aborted response.  The
\* underlying source has no cancel(), so nothing of the handler runs.
StreamRuntimeCancel ==
    /\ strAborted
    /\ ~strClosed
    /\ strClosed' = TRUE
    /\ UNCHANGED <<strPc, strAborted, strListener, strAbortListener, strSnapshots,
                   strSending, strDocs, strEnqueued, strLate>>
    /\ UNCHANGED notStr

StreamNext ==
    \/ StreamStart
    \/ \E ok \in BOOLEAN : StreamInitialSend(ok)
    \/ StreamStoreWrite
    \/ StreamOnSnapshot
    \/ \E ok \in BOOLEAN : StreamSendMessages(ok)
    \/ StreamListenError
    \/ StreamSignalAbort
    \/ StreamRuntimeCancel

StreamSpec == Init /\ [][StreamNext]_vars

\* every query settles, every snapshot owed is delivered, and the runtime
\* cancels the stream of an aborted response
StreamFairSpec ==
    /\ StreamSpec
    /\ WF_vars(\E ok \in BOOLEAN : StreamInitialSend(ok))
    /\ WF_vars(StreamOnSnapshot)
    /\ WF_vars(\E ok \in BOOLEAN : StreamSendMessages(ok))
    /\ WF_vars(StreamRuntimeCancel)


(***************************************************************************)
(* The recording of an event as a state machine: a handler reaches a call   *)
(* site, logSecurityEvent runs up to its await, the store answers or not,   *)
(* and the handler goes on to its response once the call has settled.      *)
(***************************************************************************)
\* a handler reaches `await logSecurityEvent(...)`; only a direct caller can
\* pass something that is no Request
LogCall(site, requestOk) ==
    /\ logPc = "idle"
    /\ requestOk \/ site.handler = "direct"
    /\ LET call == logSecurityEventStart(requestOk, site.edge)
       IN  /\ logLast' = [site |-> site, requestOk |-> requestOk, call |-> call,
                          status |-> 0, logsBefore |-> securityLogs]
           /\ logPc' = IF call.settled THEN "settled" ELSE "writing"
    /\ UNCHANGED <<securityLogs, logResponses>>
    /\ UNCHANGED notLog

\* the store answers the add: the document is written, or the add is rejected
LogStoreAnswers(added) ==
    /\ logPc = "writing"
    /\ added => securityLogs < MaxLogs
    /\ securityLogs' = IF added THEN securityLogs + 1 ELSE securityLogs
    /\ logLast' = [logLast EXCEPT !.call = logSecurityEventSettle(added)]
    /\ logPc' = "settled"
    /\ UNCHANGED logResponses
    /\ UNCHANGED notLog

\* the await of the handler has its value: the handler returns its response,
\* whatever the value was; a call that threw would leave through the
\* handler's own catch
LogRespond ==
    /\ logPc = "settled"
    /\ logResponses < MaxResponses
    /\ logLast' = [logLast EXCEPT !.status = IF logLast.call.threw THEN 500
                                             ELSE logLast.site.status]
    /\ logResponses' = IF logLast.site.handler = "direct" THEN logResponses
                       ELSE logResponses + 1
    /\ logPc' = "idle"
    /\ UNCHANGED securityLogs
    /\ UNCHANGED notLog

LogNext ==
    \/ \E site \in LogSites, requestOk \in BOOLEAN : LogCall(site, requestOk)
    \/ \E added \in BOOLEAN : LogStoreAnswers(added)
    \/ LogRespond

LogSpec == Init /\ [][LogNext]_vars

\* a handler whose await has its value goes on; nothing makes the store answer
LogFairSpec == LogSpec /\ WF_vars(LogRespond)


(***************************************************************************)
(* The subscription as a state machine                                     *)
(***************************************************************************)
\* an event with messages arrives: onmessage runs up to Promise.all.  When no
\* message waits for decryptMessage nothing outside is awaited and the
\* subscriber is called before any other event is handled.
SubEvent(batch) ==
    /\ subArrived < MaxArrived
    /\ subArrived' = subArrived + 1
    /\ LET key == getRoomKey(roomKeys)
           waiting == {i \in 1..Len(batch) : NeedsDecrypt(batch[i], key)}
       IN  IF waiting = {}
           THEN /\ subCallbacks' = Append(subCallbacks,
                                          [n |-> subArrived + 1, key |-> key,
                                           messages |-> batch,
                                           delivered |-> PromiseAll(batch, key)])
                /\ UNCHANGED subHandlers
           ELSE /\ subHandlers' = subHandlers \cup
                                    {[n |-> subArrived + 1, key |-> key,
                                      messages |-> batch, waiting |-> waiting]}
                /\ UNCHANGED subCallbacks
    /\ UNCHANGED cliVars
    /\ UNCHANGED notSub

\* one decryptMessage call of a waiting onmessage settles
SubDecrypted(h, i) ==
    /\ h \in subHandlers
    /\ i \in h.waiting
    /\ h.waiting # {i}
    /\ subHandlers' = (subHandlers \ {h}) \cup {[h EXCEPT !.waiting = @ \ {i}]}
    /\ UNCHANGED <<subArrived, subCallbacks>>
    /\ UNCHANGED cliVars
    /\ UNCHANGED notSub

\* the last decryptMessage call of a waiting onmessage settles: Promise.all
\* resolves and callback(messages) is called
SubCallback(h) ==
    /\ h \in subHandlers
    /\ Cardinality(h.waiting) = 1
    /\ subHandlers' = subHandlers \ {h}
    /\ subCallbacks' = Append(subCallbacks,
                              [n |-> h.n, key |-> h.key, messages |-> h.messages,
                               delivered |-> PromiseAll(h.messages, h.key)])
    /\ UNCHANGED subArrived
    /\ UNCHANGED cliVars
    /\ UNCHANGED notSub

\* storeRoomKey, while the subscription is open
SubStoreKey(key) ==
    /\ roomKeys = NoKey
    /\ roomKeys' = [flag |-> TRUE, key |-> key]
    /\ UNCHANGED <<eventSource, cliSent, cliEvent>>
    /\ UNCHANGED notCli

SubNext ==
    \/ \E batch \in SubBatches : SubEvent(batch)
    \/ \E h \in subHandlers : \E i \in h.waiting : SubDecrypted(h, i)
    \/ \E h \in subHandlers : SubCallback(h)
    \/ \E key \in CryptoKeys : SubStoreKey(key)

SubSpec == Init /\ [][SubNext]_vars


(***************************************************************************)
(* The room page as a state machine                                        *)
(***************************************************************************)
\* checkAuthentication, after the list of localStorage has been loaded:
\* the prompt is shown exactly when the room is not in the list
PageCheck ==
    /\ pagePc = "checking"
    /\ showPasswordPrompt' = ~PageIsRoomAuthenticated(localRooms, pageId)
    /\ pagePc' = "ready"
    /\ UNCHANGED <<pageId, pageKeys, localRooms, pageSent>>
    /\ UNCHANGED notPage

\* handleAuthenticate: joinRoom(id, password, name).  joined: the server
\* answered 200; derived: deriveKey resolved to key, otherwise joinRoom logs
\* the error and goes on without storeRoomKey.  A failed join throws and the
\* prompt stays.
PageAuthenticate(joined, derived, key) ==
    /\ pagePc = "ready"
    /\ showPasswordPrompt
    /\ IF joined
       THEN /\ pageKeys' = IF derived
                           THEN [pageKeys EXCEPT ![pageId] = [flag |-> TRUE, key |-> key]]
                           ELSE pageKeys
            /\ localRooms' = localRooms \cup {pageId}
            /\ showPasswordPrompt' = FALSE
       ELSE UNCHANGED <<pageKeys, localRooms, showPasswordPrompt>>
    /\ UNCHANGED <<pagePc, pageId, pageSent>>
    /\ UNCHANGED notPage

\* the user follows a link to the page of a room: RoomPage is mounted for it,
\* useState(false) hides the prompt until checkAuthentication has run
PageOpen(roomId) ==
    /\ pageId' = roomId
    /\ showPasswordPrompt' = FALSE
    /\ pagePc' = "checking"
    /\ UNCHANGED <<pageKeys, localRooms, pageSent>>
    /\ UNCHANGED notPage

\* the page is loaded again, in the same tab (sessionStorage kept) or in a new
\* tab (sessionStorage empty): window.roomKeys is empty, localStorage is kept
PageLoad(newTab) ==
    /\ pageKeys' = [roomId \in PageRooms |->
                       [flag |-> pageKeys[roomId].flag /\ ~newTab, key |-> "none"]]
    /\ showPasswordPrompt' = FALSE
    /\ pagePc' = "checking"
    /\ UNCHANGED <<pageId, localRooms, pageSent>>
    /\ UNCHANGED notPage

\* handleSendMessage, from the form shown in place of the prompt:
\* sendMessage(id, newMessage.trim()), without a userName
PageSend(text, iv, rejected) ==
    /\ pagePc = "ready"
    /\ ~showPasswordPrompt
    /\ pageSent' = [made |-> TRUE, key |-> getRoomKey(pageKeys[pageId]), text |-> text,
                    body |-> sendMessage(pageKeys[pageId], pageId, text, <<>>, iv,
                                         rejected)]
    /\ UNCHANGED <<pagePc, pageId, pageKeys, showPasswordPrompt, localRooms>>
    /\ UNCHANGED notPage

PageNext ==
    \/ PageCheck
    \/ \E joined \in BOOLEAN, derived \in BOOLEAN, key \in CryptoKeys :
          PageAuthenticate(joined, derived, key)
    \/ \E roomId \in PageRooms : PageOpen(roomId)
    \/ \E newTab \in BOOLEAN : PageLoad(newTab)
    \/ \E text \in PlainTexts, iv \in Ivs, rejected \in BOOLEAN :
          PageSend(text, iv, rejected)

PageSpec == Init /\ [][PageNext]_vars

(***************************************************************************)
(* Claims about the limiter                                                *)
(***************************************************************************)
Min(a, b) == IF a < b THEN a ELSE b

\* C1 (as stated): in every reachable state, for every key, at most Limit calls
\* were accepted inside one interval-length window, and a call is rejected
\* only when Limit calls of its key were already accepted inside the window.
C1_WindowLimit ==
    /\ \A k \in Keys : Len(accepted[k]) <= Limit
    /\ (lastCall.made /\ lastCall.at = now /\ ~lastCall.ok)
          => Len(accepted[lastCall.key]) >= Limit

\* C1 (amended): the same, for every key whose entry was never evicted by the
\* capacity ceiling of the cache.
C1_WindowLimitUnlessEvicted ==
    /\ \A k \in Keys \ evictedKeys : Len(accepted[k]) <= Limit
    /\ (lastCall.made /\ lastCall.at = now /\ ~lastCall.ok)
          => Len(accepted[lastCall.key]) >= Limit

\* a key that was never evicted has Limit accepted calls in the window and its
\* next call has just been rejected
C1_Witness ==
    /\ lastCall.made /\ ~lastCall.ok /\ lastCall.at = now
    /\ lastCall.key \notin evictedKeys
    /\ Len(accepted[lastCall.key]) = Limit

\* C2: whatever the interleaving of the two bursts, the number of accepted
\* calls is the number of calls issued so far, capped at the limit; with both
\* bursts complete exactly BurstLimit calls were accepted.
C2_BurstTotal ==
    burstOk[1] + burstOk[2] = Min(burstPc[1] + burstPc[2], BurstLimit)

\* both bursts are complete, each had calls accepted and calls rejected
C2_Witness ==
    /\ burstPc[1] = BurstSize /\ burstPc[2] = BurstSize
    /\ burstOk[1] > 0 /\ burstOk[2] > 0
    /\ burstOk[1] + burstOk[2] = BurstLimit
    /\ now > 0

Expired(list, t) == { i \in 1..Len(list) : t - list[i] >= Interval }

\* C3: a call whose key's oldest recorded timestamp is at least Interval old
\* is accepted; a call is accepted exactly when the recorded timestamps minus
\* the expired ones are fewer than the limit (one slot per expired timestamp);
\* a rejected call leaves the recorded list as it was.
C3_Expiry ==
    lastCall.made =>
        /\ (lastCall.before # <<>> /\ lastCall.at - Head(lastCall.before) >= Interval)
              => lastCall.ok
        /\ lastCall.ok <=>
              Len(lastCall.before) - Cardinality(Expired(lastCall.before, lastCall.at)) < Limit
        /\ ~lastCall.ok => lastCall.after = lastCall.before

\* a key at its limit is accepted again at the moment its oldest timestamp is
\* exactly Interval old
C3_Witness ==
    /\ lastCall.made /\ lastCall.ok
    /\ Len(lastCall.before) = Limit
    /\ lastCall.at - Head(lastCall.before) = Interval

\* the first comma-separated entry of s: its longest prefix holding no comma
FirstEntry(s) ==
    LET n == CHOOSE i \in 0..Len(s) :
                 /\ \A j \in 1..i : s[j] # ","
                 /\ (i = Len(s) \/ s[i + 1] = ",")
    IN  SubSeq(s, 1, n)

\* s without its leading and trailing blanks
Trimmed(s) ==
    LET span == CHOOSE ab \in (1..(Len(s) + 1)) \X (0..Len(s)) :
                    /\ \A j \in 1..(ab[1] - 1) : s[j] = " "
                    /\ \A j \in (ab[2] + 1)..Len(s) : s[j] = " "
                    /\ ab[1] <= ab[2] => (s[ab[1]] # " " /\ s[ab[2]] # " ")
                    /\ ab[1] > ab[2] => (ab[1] = Len(s) + 1 /\ ab[2] = Len(s))
    IN  SubSeq(s, span[1], span[2])

IsBlank(s) == \A j \in 1..Len(s) : s[j] = " "

ExpectedKey(request) ==
    IF ~request.present \/ IsBlank(request.chars)
    THEN Loopback
    ELSE Trimmed(FirstEntry(request.chars))

\* C4 (as stated): the key is the trimmed first entry of X-Forwarded-For, or
\* the loopback address, and the outcome of every call is the outcome the same
\* call has on a limiter that never saw another key.
C4_KeysIndependent ==
    lastCall.made =>
        /\ lastCall.key = ExpectedKey(lastCall.request)
        /\ lastCall.ok = lastCall.isolatedOk

\* C4 (amended): the same, for calls under a key whose entry was never evicted
\* by the capacity ceiling.
C4_KeysIndependentUnlessEvicted ==
    lastCall.made =>
        /\ lastCall.key = ExpectedKey(lastCall.request)
        /\ lastCall.key \notin evictedKeys => lastCall.ok = lastCall.isolatedOk

\* more keys than the capacity have been active (one was evicted), and a call
\* under a key that kept its entry is rejected while other keys are cached
C4_Witness ==
    /\ lastCall.made /\ ~lastCall.ok
    /\ lastCall.key \notin evictedKeys
    /\ evictedKeys # {}
    /\ Len(tokenCache) = UniqueTokenPerInterval
    /\ lastCall.request = Hdr(<<" ", "a">>)

(***************************************************************************)
(* Claims about the API                                                    *)
(***************************************************************************)
\* the session a request carrying this cookie loads has roomId in its
\* authenticatedRooms
HasRoom(jar, roomId) ==
    LET list == getSession(jar).authenticatedRooms
    IN  \E i \in 1..Len(list) : list[i] = roomId

\* the last request passed the limiter and the validation of its body
Passed(resp) == ~resp.limited /\ resp.wellFormed

\* C5: a step of POST /messages/send adds a message only if the session loaded
\* from the cookie of the request has the target room in authenticatedRooms;
\* otherwise nothing is stored and the answer is one of 400, 403, 404, 429: 403
\* when the room exists and the request passed the limiter and validation.
C5_SendOnlyIfAuthenticated ==
    [][ lastResp'.op = "send" =>
          LET authenticated == HasRoom(cookie[lastResp'.b], lastResp'.roomId)
          IN  /\ messages' # messages => authenticated /\ lastResp'.status = 200
              /\ ~authenticated => /\ messages' = messages
                                   /\ lastResp'.status \in {400, 403, 404, 429}
              /\ (~authenticated /\ Passed(lastResp') /\ lastResp'.roomExisted)
                    => lastResp'.status = 403 ]_vars

\* an identified session that is not authenticated for an existing room, which
\* already holds a message, has just been refused with 403
C5_Witness ==
    /\ lastResp.op = "send" /\ lastResp.status = 403 /\ lastResp.roomExisted
    /\ getSession(cookie[lastResp.b]).isLoggedIn
    /\ MessagesOf(messages, lastResp.roomId) # <<>>

\* C6: a step of GET /messages/{roomId} or of GET /messages/{roomId}/stream
\* returns message data, or opens a stream, only if the session loaded from the
\* cookie of the request has the room in authenticatedRooms; any other session
\* gets 403, no data, no stream, and the store is not queried.  A later event
\* is emitted only on a stream that was opened.
C6_ReadOnlyIfAuthenticated ==
    [][ /\ lastResp'.op \in {"get", "stream"} =>
             LET authenticated == HasRoom(cookie[lastResp'.b], lastResp'.roomId)
             IN  /\ ~authenticated => /\ lastResp'.status = 403
                                      /\ lastResp'.data = <<>>
                                      /\ ~lastResp'.queried
                                      /\ streams' = streams
                 /\ (lastResp'.data # <<>> \/ streams' # streams) => authenticated
        /\ lastResp'.op = "event" =>
             [b |-> lastResp'.b, roomId |-> lastResp'.roomId] \in streams ]_vars

\* an identified session that is not authenticated for an existing room, which
\* holds a message, has just been refused with 403
C6_Witness ==
    /\ lastResp.op \in {"get", "stream"} /\ lastResp.status = 403 /\ lastResp.roomExisted
    /\ getSession(cookie[lastResp.b]).isLoggedIn
    /\ MessagesOf(messages, lastResp.roomId) # <<>>

\* C7: in every reachable state, every roomId in the authenticatedRooms of a
\* session cookie was granted to that session by a creation that returned it or
\* by a join / room-auth request for it with the password of the room; and
\* isRoomAuthenticated is false for a session whose list is empty.
C7_OnlyGrantedRooms ==
    \A b \in Browsers :
        /\ \A i \in 1..Len(cookie[b].data.authenticatedRooms) :
              cookie[b].data.authenticatedRooms[i] \in granted[b]
        /\ cookie[b].data.authenticatedRooms = <<>>
              => \A roomId \in RoomIds : ~isRoomAuthenticated(cookie[b].data, roomId)

\* an identified session has just gained a room through POST /auth/room, with the
\* password the room was created with
C7_Witness ==
    /\ lastResp.op = "auth" /\ lastResp.status = 200 /\ lastResp.queried
    /\ lastResp.passwordRight
    /\ HasRoom(cookie[lastResp.b], lastResp.roomId)
    /\ lastResp.roomId \in granted[lastResp.b]

\* C8 (as stated): when POST /rooms/create has answered 201 with a roomId, the
\* session loaded from the resulting cookie is authenticated for that room.
C8_CreatorAuthenticated ==
    (lastResp.op = "create" /\ lastResp.status = 201)
        => HasRoom(cookie[lastResp.b], lastResp.roomId)

\* C9: a step of POST /rooms/join that passed the limiter and validation with a
\* password that is not the room's is answered 401 when the room exists and 404
\* when it does not, after the delay, and leaves the cookie of the caller and
\* the identifiers issued so far as they were.
C9_FailedJoin ==
    [][ (/\ lastResp'.op = "join" /\ Passed(lastResp') /\ lastResp'.userName # <<>>
         /\ ~lastResp'.passwordRight)
          => /\ lastResp'.status = (IF lastResp'.roomExisted THEN 401 ELSE 404)
             /\ lastResp'.delayed
             /\ cookie' = cookie
             /\ nextUuid' = nextUuid ]_vars

\* an identified session has just been answered 401 for a join that carried
\* another user name than the session's
C9_Witness ==
    /\ lastResp.op = "join" /\ lastResp.status = 401 /\ lastResp.delayed
    /\ getSession(cookie[lastResp.b]).isLoggedIn
    /\ getSession(cookie[lastResp.b]).userName # lastResp.userName
    /\ ~HasRoom(cookie[lastResp.b], lastResp.roomId)

\* C10: a step of POST /rooms/join that passed the limiter and validation with
\* the password of an existing room is answered 200, and the session loaded
\* from the resulting cookie is identified and has the room; when the cookie of
\* the request held no identified session, the new session has the supplied
\* userName, a userId and a csrfToken that were never issued before, and the
\* joined room as its only room.
C10_SuccessfulJoin ==
    [][ (/\ lastResp'.op = "join" /\ Passed(lastResp') /\ lastResp'.userName # <<>>
         /\ lastResp'.roomExisted /\ lastResp'.passwordRight)
          => LET before == getSession(cookie[lastResp'.b])
                 after  == getSession(cookie'[lastResp'.b])
             IN  /\ lastResp'.status = 200
                 /\ after.isLoggedIn
                 /\ HasRoom(cookie'[lastResp'.b], lastResp'.roomId)
                 /\ ~before.isLoggedIn =>
                       /\ after.userName = lastResp'.userName
                       /\ after.authenticatedRooms = <<lastResp'.roomId>>
                       /\ after.userId >= nextUuid /\ after.userId < nextUuid'
                       /\ after.csrfToken >= nextUuid /\ after.csrfToken < nextUuid'
                       /\ after.userId # after.csrfToken
                 /\ before.isLoggedIn =>
                       /\ after.userId = before.userId
                       /\ after.csrfToken = before.csrfToken ]_vars

\* a caller without a session has just joined: the session the join created
\* keeps the user name as supplied and holds the joined room only
C10_Witness ==
    /\ lastResp.op = "join" /\ lastResp.status = 200
    /\ lastResp.userName = <<"a", " ">>
    /\ getSession(cookie[lastResp.b]).userName = <<"a", " ">>
    /\ getSession(cookie[lastResp.b]).authenticatedRooms = <<lastResp.roomId>>
    /\ getSession(cookie[lastResp.b]).userId = nextUuid - 2

NoDuplicates(list) ==
    \A i, j \in 1..Len(list) : list[i] = list[j] => i = j

ApiOps == {"create", "join", "auth", "session", "send", "get", "stream"}

IsPrefix(list, longer) ==
    /\ Len(list) <= Len(longer)
    /\ \A i \in 1..Len(list) : list[i] = longer[i]

\* C12 (as stated): a step of any API operation on the cookie of an identified
\* session leaves an identified session with the same userId and csrfToken, and
\* with the rooms it had, in their order, possibly followed by new ones; only
\* userName may differ otherwise.
C12_IdentifiedSessionOnlyGrows ==
    [][ (lastResp'.op \in ApiOps /\ getSession(cookie[lastResp'.b]).isLoggedIn)
          => LET before == getSession(cookie[lastResp'.b])
                 after  == getSession(cookie'[lastResp'.b])
             IN  /\ after.isLoggedIn
                 /\ after.userId = before.userId
                 /\ after.csrfToken = before.csrfToken
                 /\ IsPrefix(before.authenticatedRooms, after.authenticatedRooms) ]_vars

\* C13 (as stated): a step of POST /rooms/create, /rooms/join, /messages/send or
\* /auth/room whose request carries no csrfToken, or one that differs from the
\* csrfToken of the session, is rejected with an error status and changes
\* neither the cookie of the caller nor the rooms nor the messages.
C13_CsrfCheckedEverywhere ==
    [][ (lastResp'.op \in {"create", "join", "send", "auth"} /\ lastResp'.csrf # "right")
          => /\ lastResp'.status >= 400
             /\ cookie' = cookie
             /\ rooms' = rooms
             /\ messages' = messages ]_vars

\* C14: a step of POST /auth/room that passed the limiter, comes from an
\* identified session and carries a well-formed body whose csrfToken is not the
\* session's is answered 403, records a csrf_violation event and leaves the
\* cookie of the caller as it was, whatever the password.
C14_CsrfMismatchOnAuthRoom ==
    [][ (/\ lastResp'.op = "auth" /\ Passed(lastResp') /\ lastResp'.csrf = "wrong"
         /\ getSession(cookie[lastResp'.b]).isLoggedIn)
          => /\ lastResp'.status = 403
             /\ [type |-> "csrf_violation", path |-> "auth/room"] \in lastResp'.logged
             /\ cookie' = cookie ]_vars

\* an identified session that lacks an existing room has just been refused with
\* 403 although it supplied the password of the room
C14_Witness ==
    /\ lastResp.op = "auth" /\ lastResp.status = 403 /\ lastResp.csrf = "wrong"
    /\ lastResp.roomExisted /\ lastResp.passwordRight
    /\ getSession(cookie[lastResp.b]).isLoggedIn
    /\ ~HasRoom(cookie[lastResp.b], lastResp.roomId)

(***************************************************************************)
(* Claims about the middleware                                             *)
(***************************************************************************)
RECURSIVE UpToSlash(_)
UpToSlash(s) ==
    IF s = <<>> \/ Head(s) = "/" THEN <<>> ELSE <<Head(s)>> \o UpToSlash(Tail(s))

\* the host a URL designates: what stands between the scheme and the first "/"
HostOfUrl(url) == IF url = <<>> THEN <<>> ELSE UpToSlash(Tail(url))

\* the header is present and designates the host of the Host header
SameHost(hdr, host) ==
    hdr.present /\ host.present /\ hdr.chars # <<>> /\ HostOfUrl(hdr.chars) = host.chars

\* C15 (as stated): a POST, PUT, DELETE or PATCH request to an /api/ path is
\* answered 403 unless its Origin or its Referer designates the host of its Host
\* header; a GET request or a request to another path is never answered 403.
C15_SameHostOnly ==
    mwLast.made =>
        LET request == mwLast.request
            write   == /\ request.method \in WriteMethods
                       /\ StartsWith(request.path, ApiPrefix)
        IN  /\ (/\ write
                /\ ~SameHost(request.origin, request.host)
                /\ ~SameHost(request.referer, request.host))
                  => mwLast.status = 403
            /\ ~write => mwLast.status # 403

(***************************************************************************)
(* Claims about the client                                                 *)
(***************************************************************************)
\* C16 (as stated): when getRoomKey gave a key at the time of the call, the body
\* sendMessage posts has encrypted = true, an iv, and as text the ciphertext
\* of the message under that key, never the plaintext.
C16_CiphertextOnly ==
    (cliSent.made /\ cliSent.key # "none")
        => /\ cliSent.body.encrypted
           /\ cliSent.body.iv # <<>>
           /\ cliSent.body.text # cliSent.text
           /\ \E iv \in Ivs : cliSent.body.text = B64(Ct(cliSent.text, cliSent.key, iv))

\* the text of msg for a client that holds key: the plaintext when msg is a
\* ciphertext made with this key and the iv it carries, the fixed text when it
\* is marked encrypted but is anything else, the text as received otherwise
Genuine(msg, key) ==
    \E text \in PlainTexts, iv \in Ivs :
        msg.text = B64(Ct(text, key, iv)) /\ msg.iv = B64(iv)

PlainOf(msg, key) ==
    CHOOSE text \in PlainTexts : \E iv \in Ivs : msg.text = B64(Ct(text, key, iv))

ExpectedText(msg, key) ==
    IF msg.encrypted /\ msg.iv # <<>> /\ key # "none"
    THEN IF Genuine(msg, key) THEN PlainOf(msg, key) ELSE Sentinel
    ELSE msg.text

\* C19: decryptMessage never throws, and gives the fixed text for every message
\* that is not a ciphertext made with the key and the iv; an event that carries
\* messages never throws out of onmessage, the callback is called with every
\* message of the batch (the undecryptable ones with the fixed text, the
\* others decrypted or as received), and the EventSource stays open.
C19_DecryptionFailureIsLocal ==
    /\ \A msg \in ServerMessages, key \in CryptoKeys :
          LET res == decryptMessage(msg.text, msg.iv, key)
          IN  /\ ~res.threw
              /\ res.val = IF Genuine(msg, key) THEN PlainOf(msg, key) ELSE Sentinel
    /\ (cliEvent.n > 0 /\ cliEvent.event.kind = "messages")
          => /\ ~cliEvent.threw
             /\ cliEvent.called
             /\ Len(cliEvent.delivered) = Len(cliEvent.event.messages)
             /\ \A i \in 1..Len(cliEvent.delivered) :
                   cliEvent.delivered[i] =
                       [cliEvent.event.messages[i] EXCEPT
                           !.text = ExpectedText(cliEvent.event.messages[i], cliEvent.key)]
    /\ cliEvent.n > 0 => ~cliEvent.threw

\* after an event with an undecryptable message, a later batch with one message
\* that cannot be decrypted and one that can has been delivered whole
C19_Witness ==
    /\ cliEvent.n = 2 /\ cliEvent.failedBefore /\ cliEvent.called
    /\ Len(cliEvent.delivered) = 2
    /\ cliEvent.delivered[1].text = Sentinel
    /\ cliEvent.delivered[2].text = <<"hi">>
    /\ cliEvent.event.messages[2].encrypted
    /\ eventSource

(***************************************************************************)
(* Claims about the stored messages                                        *)
(***************************************************************************)
\* the message a step has just added
Added(store) == store[Len(store)]

\* text without its markup pieces
Stripped(text) == SelectSeq(text, LAMBDA piece : ~IsMarkup(piece))

XssAttempt == [type |-> "xss_attempt", path |-> "messages/send"]

\* C17: every stored message has an iv exactly when it has encrypted = true; a
\* step of POST /messages/send that stores a message stores encrypted = true,
\* the iv and the text as received when the request carried encrypted = true
\* and a non-empty iv, and in every other case stores neither field and the
\* sanitized text.
C17_IvIffEncrypted ==
    [][ /\ \A i \in 1..Len(messages') : messages'[i].encrypted <=> messages'[i].iv # ""
        /\ (lastResp'.op = "send" /\ messages' # messages)
              => /\ messages' = Append(messages, Added(messages'))
                 /\ IF lastResp'.encrypted /\ lastResp'.iv # ""
                    THEN /\ Added(messages').encrypted
                         /\ Added(messages').iv = lastResp'.iv
                         /\ Added(messages').text = lastResp'.text
                    ELSE /\ ~Added(messages').encrypted
                         /\ Added(messages').iv = ""
                         /\ Added(messages').text = Stripped(lastResp'.text) ]_vars

\* a request with encrypted = true, no iv and markup in its text has just been
\* stored without the two fields and without the markup
C17_Witness ==
    /\ lastResp.op = "send" /\ lastResp.status = 200
    /\ lastResp.encrypted /\ lastResp.iv = ""
    /\ lastResp.text = <<"<b>", "hi">>
    /\ messages # <<>>
    /\ ~Added(messages).encrypted /\ Added(messages).iv = ""
    /\ Added(messages).text = <<"hi">>

\* C18: a step of POST /messages/send for a request without the encrypted flag,
\* from a session that has the existing room, that passed the limiter and
\* validation, is answered 200 and stores the text without its markup; when
\* that differs from the text received, an xss_attempt event is recorded.
C18_SanitizedAndLogged ==
    [][ (/\ lastResp'.op = "send" /\ ~lastResp'.encrypted /\ Passed(lastResp')
         /\ lastResp'.roomExisted /\ lastResp'.hadRoom)
          => /\ lastResp'.status = 200
             /\ Len(messages') = Len(messages) + 1
             /\ Added(messages').text = Stripped(lastResp'.text)
             /\ \A i \in 1..Len(Added(messages').text) :
                   ~IsMarkup(Added(messages').text[i])
             /\ Stripped(lastResp'.text) # lastResp'.text
                   => XssAttempt \in lastResp'.logged ]_vars

\* a text with markup, sent without the encrypted flag, has just been stored
\* without the markup, answered 200, and recorded as an xss_attempt
C18_Witness ==
    /\ lastResp.op = "send" /\ lastResp.status = 200 /\ ~lastResp.encrypted
    /\ lastResp.text = <<"<b>", "hi">>
    /\ messages # <<>> /\ Added(messages).text = <<"hi">>
    /\ XssAttempt \in lastResp.logged

(***************************************************************************)
(* Claims about the event stream                                           *)
(***************************************************************************)
\* C20: once the client has aborted the connection of the stream, whether
\* during the initial fetch or later, the store listener of the stream is
\* eventually detached for good, and no event is enqueued on the stream after
\* the abort.
C20_AbortEndsStream ==
    /\ [](strAborted => <>[](~strListener))
    /\ [](~strLate)

(***************************************************************************)
(* Claims about the recording of security events                           *)
(***************************************************************************)
\* C21: a call of logSecurityEvent never throws; it resolves to false
\* without having written a log document when the request object is
\* malformed or the write failed, and to true only after its write (for the
\* store logger); the handler then answers with the status of its call site.
C21_LoggingNeverFails ==
    /\ ~logLast.call.threw
    /\ (logLast.call.settled /\ ~logLast.call.result)
          => (~logLast.call.wrote /\ securityLogs = logLast.logsBefore)
    /\ (logLast.call.settled /\ logLast.call.result /\ ~logLast.site.edge)
          => (logLast.call.wrote /\ securityLogs = logLast.logsBefore + 1)
    /\ ~logLast.requestOk => (logLast.call.settled /\ ~logLast.call.result)
    /\ logLast.status # 0 => logLast.status = logLast.site.status

\* a write was rejected, the call resolved to false, and the handler has
\* answered with the status of its site
C21_Witness ==
    /\ logPc = "idle"
    /\ logLast.site.handler = "rooms/join" /\ logLast.site.type = "auth_failure"
    /\ logLast.call.settled /\ ~logLast.call.result /\ ~logLast.call.wrote
    /\ logLast.status = 401

\* C22: a handler that has reached the recording of an event answers its
\* request whether or not the log store ever answers.
C22_ResponseWithoutLogWrite == (logPc = "writing") ~> (logPc = "idle")

(***************************************************************************)
(* Claims about the persisted session                                      *)
(***************************************************************************)
\* C23: every persisted session is anonymous (isLoggedIn false, empty userId,
\* userName, csrfToken and authenticatedRooms) or identified (isLoggedIn true,
\* non-empty userId and csrfToken); none has isLoggedIn false together with a
\* non-empty authenticatedRooms.
C23_AnonymousOrIdentified ==
    \A b \in Browsers :
        cookie[b].present =>
            LET session == cookie[b].data
            IN  \/ /\ ~session.isLoggedIn
                   /\ session.userId = 0
                   /\ session.userName = <<>>
                   /\ session.csrfToken = 0
                   /\ session.authenticatedRooms = <<>>
                \/ /\ session.isLoggedIn
                   /\ session.userId # 0
                   /\ session.csrfToken # 0

\* C24: a step of POST /rooms/create, /rooms/join, /auth/room, /messages/send
\* or of a read, on the cookie of an identified session, leaves the cookie
\* with the same csrfToken and the same userId.
C24_TokenOnlyFromCreateSession ==
    [][ \A b \in Browsers :
          (/\ lastResp'.op \in {"create", "join", "auth", "send", "get", "stream"}
           /\ cookie[b].present /\ cookie[b].data.isLoggedIn)
             => /\ cookie'[b].present
                /\ cookie'[b].data.isLoggedIn
                /\ cookie'[b].data.csrfToken = cookie[b].data.csrfToken
                /\ cookie'[b].data.userId = cookie[b].data.userId ]_vars

\* a session that already had the room has just joined it again with the right
\* password: it was identified before the request and still holds a token
C24_Witness ==
    /\ lastResp.op = "join" /\ lastResp.status = 200 /\ lastResp.hadRoom
    /\ cookie[lastResp.b].present
    /\ cookie[lastResp.b].data.isLoggedIn
    /\ cookie[lastResp.b].data.csrfToken # 0

(***************************************************************************)
(* Claims about malformed stored password hashes                           *)
(***************************************************************************)
\* no ':' in the stored string, or an empty salt or hash part
IsMalformed(storedHash) ==
    \/ Len(storedHash) < 2
    \/ storedHash[1] = ""
    \/ storedHash[2] = <<>>

\* the request went as far as the check of the password against the room
ReachedPassword(resp, jar) ==
    /\ Passed(resp)
    /\ resp.roomExisted
    /\ resp.op = "join" => resp.userName # <<>>
    /\ resp.op = "auth" => /\ getSession(jar).isLoggedIn
                           /\ resp.csrf = "right"
                           /\ ~resp.hadRoom

\* C25: a step of POST /rooms/join or POST /auth/room that reaches the password
\* check of a room whose stored hash is malformed is answered 401, as for a
\* wrong password, and leaves the session as it was, whatever the password.
C25_MalformedHashRejects ==
    [][ (/\ lastResp'.op \in {"join", "auth"}
         /\ ReachedPassword(lastResp', cookie[lastResp'.b])
         /\ IsMalformed(rooms[lastResp'.roomId].passwordHash))
          => /\ lastResp'.status = 401
             /\ cookie' = cookie ]_vars

(***************************************************************************)
(* Claims about overlapping requests                                       *)
(***************************************************************************)
\* C26: when two joins of the same session that overlapped in time have both
\* been answered 200, for different rooms, and both responses have been
\* applied, the session is authenticated for both rooms.
C26_OverlappingJoinsBothKept ==
    (/\ \A r \in Reqs : pending[r].pc = "done" /\ pending[r].status = 200
     /\ \E r \in Reqs : pending[r].overlap
     /\ pending["r1"].in.roomId # pending["r2"].in.roomId)
       => \A b \in Browsers :
             /\ HasRoom(cookie[b], pending["r1"].in.roomId)
             /\ HasRoom(cookie[b], pending["r2"].in.roomId)

(***************************************************************************)
(* Claims about rejected sends                                             *)
(***************************************************************************)
\* C27: a step of POST /messages/send answered 400, 403, 404 or 429 leaves the
\* message store and the cookie of the caller as they were.
C27_RejectedSendChangesNothing ==
    [][ (lastResp'.op = "send" /\ lastResp'.status \in {400, 403, 404, 429})
          => /\ messages' = messages
             /\ cookie' = cookie ]_vars

\* C28: the text of every message POST /messages/send stores is the text
\* received without its markup, except for a request with encrypted = true
\* and a non-empty iv: its text is stored as received, markup included, and
\* no xss_attempt event is recorded for it.
C28_SanitizedUnlessEncrypted ==
    [][ (lastResp'.op = "send" /\ Len(messages') = Len(messages) + 1)
          => IF lastResp'.encrypted /\ lastResp'.iv # ""
             THEN /\ Added(messages').text = lastResp'.text
                  /\ XssAttempt \notin lastResp'.logged
             ELSE Added(messages').text = Stripped(lastResp'.text) ]_vars

\* a text with markup, sent with encrypted = true and an iv, has just been
\* stored with its markup and without any xss_attempt event
C28_Witness ==
    /\ lastResp.op = "send" /\ lastResp.status = 200
    /\ lastResp.encrypted /\ lastResp.iv # ""
    /\ lastResp.text = <<"<b>", "hi">>
    /\ messages # <<>> /\ Added(messages).text = <<"<b>", "hi">>
    /\ XssAttempt \notin lastResp.logged

(***************************************************************************)
(* Claims about the order of delivered batches                             *)
(***************************************************************************)
\* C29: the subscriber is given the batches in the order in which their
\* events arrived, so the last batch given is that of the latest event handled,
\* and every batch has its messages in the order of the event.
C29_BatchesInArrivalOrder ==
    /\ \A i \in 1..(Len(subCallbacks) - 1) : subCallbacks[i].n < subCallbacks[i + 1].n
    /\ subHandlers = {} /\ subCallbacks # <<>>
          => subCallbacks[Len(subCallbacks)].n = subArrived
    /\ \A i \in 1..Len(subCallbacks) :
          /\ Len(subCallbacks[i].delivered) = Len(subCallbacks[i].messages)
          /\ \A j \in 1..Len(subCallbacks[i].messages) :
                subCallbacks[i].delivered[j].iv = subCallbacks[i].messages[j].iv

(***************************************************************************)
(* Claims about the room page                                              *)
(***************************************************************************)
\* C30: whenever the room page, its check done, shows the chat and not the
\* password prompt, the client holds the key of the room, and the last
\* message sent from the page went out encrypted.
C30_NoPromptMeansKey ==
    /\ (pagePc = "ready" /\ ~showPasswordPrompt) => getRoomKey(pageKeys[pageId]) # "none"
    /\ pageSent.made => pageSent.body.encrypted

====
